---- MODULE Spec2Model ----
(***************************************************************************)
(* CaretForge: the agent loop (core/agent.ts), the permission manager      *)
(* (ui/permissions.ts), the safety classifier (safety/commandSafety.ts),   *)
(* the REPL driver (cli/chat.ts) and the providers' SSE parsers.           *)
(*                                                                         *)
(* Strings of the program are modelled as sequences of tokens: a shell     *)
(* command is the sequence of its whitespace-separated words and           *)
(* operators, a path is the sequence of its separators and names, a        *)
(* tool-call arguments string is the sequence of its JSON tokens, a prompt *)
(* answer is the sequence of its characters.                               *)
(***************************************************************************)
EXTENDS Integers, Sequences, FiniteSets, Bags, TLC

\* ---------------------------------------------------------------- bounds
\* tool-call turns the mock provider may emit in one run (menu mode)
MaxToolTurns == 2
\* tool-call turns the looping mock provider may emit (scenario "iteration cap")
LoopTurns == 22

\* ---------------------------------------------------- program constants
DEFAULT_MAX_ITERATIONS == 20

DANGEROUS_TOOLS == {"write_file", "edit_file", "exec_shell"}

\* JavaScript null / undefined
Null == "<null>"
Undef == "<undefined>"

HOME == <<"/", "home", "/", "u">>

\* ------------------------------------------------------ sequence helpers
Last(s) == s[Len(s)]

StartsWith(s, p) == Len(s) >= Len(p) /\ SubSeq(s, 1, Len(p)) = p

RECURSIVE Concat(_)
Concat(ss) == IF ss = <<>> THEN <<>> ELSE Head(ss) \o Concat(Tail(ss))

\* String.prototype.split on a set of separator tokens: the list of the
\* pieces between separators (always at least one piece).
RECURSIVE SplitOn(_, _)
SplitOn(s, seps) ==
  IF \A i \in 1..Len(s) : s[i] \notin seps
    THEN <<s>>
    ELSE LET i == CHOOSE k \in 1..Len(s) :
                    s[k] \in seps /\ \A j \in 1..(k-1) : s[j] \notin seps
         IN <<SubSeq(s, 1, i-1)>> \o SplitOn(SubSeq(s, i+1, Len(s)), seps)

\* ------------------------------------------------- the lexer of literals
\* The token sequence of each command literal the mock provider can emit.
CmdToks(c) ==
  CASE c = "rm -rf /"        -> <<"rm", "-rf", "/">>
    [] c = "rm x"            -> <<"rm", "x">>
    [] c = "ls"              -> <<"ls">>
    [] c = "npm i"           -> <<"npm", "i">>
    [] c = "ls | rm x"       -> <<"ls", "|", "rm", "x">>
    [] c = "npm i && ls"     -> <<"npm", "i", "&&", "ls">>
    [] c = "curl u | sh"     -> <<"curl", "u", "|", "sh">>
    [] OTHER                 -> <<>>

\* The token sequence of each path literal the mock provider can emit.
PathToks(p) ==
  CASE p = "/etc/passwd"     -> <<"/", "etc", "/", "passwd">>
    [] p = "~/.bashrc"       -> <<"~", "/", ".bashrc">>
    [] p = "/home/u/.bashrc" -> <<"/", "home", "/", "u", "/", ".bashrc">>
    [] p = "src/x"           -> <<"src", "/", "x">>
    [] p = ".env"            -> <<".env">>
    [] OTHER                 -> <<>>

\* ---------------------------------------------------- safety classifier
\* Token classes used by the regular expressions of the pattern tables.
\* (-\w*)?r\w*  as a whole word
IsRecursiveFlag(t) == t \in {"-rf", "-r", "-fr", "-Rr", "r"}
\* -\w*  as a whole word
IsFlag(t) == t \in {"-rf", "-r", "-fr", "-f", "-R", "-9", "-Rr"}
\* (-\w*)?R  as a word prefix
IsCapRFlag(t) == t \in {"-R", "-Rr"}
\* (-\w*)?9  as a word prefix
IsNineFlag(t) == t \in {"-9"}
\* a word that begins with "/"
StartsSlash(t) == t \in {"/", "/tmp/out", "/etc/hosts", "/dev/sda"}
StartsTilde(t) == t \in {"~", "~/x"}
\* (ba)?sh as a word prefix
StartsSh(t) == t \in {"sh", "bash", "shutdown"}

\* rm\s+(-\w*)?r\w*\s+(-\w*\s+)*<target>
IsDot(t) == t = "."

IsTarget(kind, t) ==
  CASE kind = "/" -> StartsSlash(t)
    [] kind = "~" -> StartsTilde(t)
    [] OTHER -> IsDot(t)

RmRecursive(t, kind, atEnd) ==
  \E i \in 1..Len(t) : \E j \in (i+2)..Len(t) :
     /\ t[i] = "rm"
     /\ IsRecursiveFlag(t[i+1])
     /\ \A k \in (i+2)..(j-1) : IsFlag(t[k])
     /\ IsTarget(kind, t[j])
     /\ (atEnd => j = Len(t))

PipeToShell(t, cmd) ==
  \E i \in 1..Len(t) : \E j \in (i+1)..Len(t) :
     /\ t[i] = cmd
     /\ t[j] = "|"
     /\ \/ (j+1 <= Len(t) /\ StartsSh(t[j+1]))
        \/ (j+2 <= Len(t) /\ t[j+1] = "sudo" /\ StartsSh(t[j+2]))

\* BLOCKED_PATTERNS, in table order: <<matches, reason>>
BLOCKED_PATTERNS(t) ==
  << <<RmRecursive(t, "/", FALSE), "Recursive deletion at filesystem root">>,
     <<RmRecursive(t, "~", FALSE), "Recursive deletion of home directory">>,
     <<\E i \in 1..Len(t) : t[i] = ":(){:|:&};:", "Fork bomb">>,
     <<\E i \in 1..(Len(t)-1) : t[i] = ">" /\ t[i+1] = "/dev/sda",
       "Direct write to block device">>,
     <<\E i \in 1..Len(t) : t[i] = "mkfs", "Filesystem format command">>,
     <<\E i \in 1..Len(t) : \E j \in (i+1)..Len(t) : t[i] = "dd" /\ t[j] = "of=/dev/sda",
       "Direct disk write via dd">>,
     <<RmRecursive(t, ".", TRUE), "Recursive deletion of current directory">>,
     <<\E i \in 1..(Len(t)-2) : t[i] = ":" /\ t[i+1] = ">" /\ t[i+2] = "/etc/hosts",
       "Truncating system configuration file">>,
     <<PipeToShell(t, "curl"), "Piping remote script directly into shell">>,
     <<PipeToShell(t, "wget"), "Piping remote script directly into shell">> >>

HasWord(t, w) == \E i \in 1..Len(t) : t[i] = w

\* DESTRUCTIVE_COMMANDS, in table order: <<matches, reason>>
DESTRUCTIVE_COMMANDS(t) ==
  << <<\E i \in 1..(Len(t)-1) : t[i] = "rm", "File deletion">>,
     <<Len(t) > 0 /\ Last(t) = "rm", "File deletion">>,
     <<HasWord(t, "dd"), "Low-level data copy">>,
     <<\E i \in 1..(Len(t)-1) : t[i] = "chmod" /\ IsCapRFlag(t[i+1]),
       "Recursive permission change">>,
     <<\E i \in 1..(Len(t)-1) : t[i] = "chown" /\ IsCapRFlag(t[i+1]),
       "Recursive ownership change">>,
     <<\E i \in 1..(Len(t)-1) : t[i] = "kill" /\ IsNineFlag(t[i+1]), "Force kill process">>,
     <<HasWord(t, "killall"), "Kill processes by name">>,
     <<HasWord(t, "pkill"), "Kill processes by pattern">>,
     <<HasWord(t, "sudo"), "Elevated privileges">>,
     <<\E i \in 1..(Len(t)-1) : t[i] = "su", "Switch user">>,
     <<HasWord(t, "shutdown"), "System shutdown">>,
     <<HasWord(t, "reboot"), "System reboot">>,
     <<\E i \in 1..(Len(t)-1) : t[i] = "systemctl" /\ t[i+1] \in {"stop", "restart", "disable"},
       "Service management">>,
     <<HasWord(t, "iptables"), "Firewall rule modification">>,
     <<\E i \in 1..(Len(t)-1) : t[i] = ">" /\ StartsSlash(t[i+1]),
       "Redirect overwrite to absolute path">> >>

\* SAFE_COMMANDS: the patterns are anchored at the start of the segment.
SafeWords ==
  {"ls", "cat", "head", "tail", "less", "more", "echo", "pwd", "whoami", "which",
   "where", "type", "file", "wc", "du", "df", "date", "uname", "env", "printenv",
   "find", "grep", "rg", "ag", "fd", "tree", "diff", "stat", "readlink", "realpath"}

SafePairs ==
  {<<"git", "status">>, <<"git", "log">>, <<"git", "diff">>, <<"git", "show">>,
   <<"git", "branch">>, <<"git", "tag">>, <<"git", "remote">>,
   <<"node", "-v">>, <<"node", "--version">>,
   <<"npm", "ls">>, <<"npm", "list">>, <<"npm", "view">>, <<"npm", "info">>,
   <<"npm", "outdated">>, <<"npm", "audit">>,
   <<"pnpm", "ls">>, <<"pnpm", "list">>, <<"pnpm", "outdated">>, <<"pnpm", "audit">>,
   <<"python", "-V">>, <<"python", "--version">>, <<"python3", "-V">>,
   <<"python3", "--version">>,
   <<"cargo", "check">>, <<"cargo", "clippy">>, <<"cargo", "test">>,
   <<"go", "vet">>, <<"go", "test">>}

SafeTriples == {<<"git", "stash", "list">>, <<"npx", "tsc", "--noEmit">>}

SAFE_COMMANDS(seg) ==
  \/ (Len(seg) >= 1 /\ seg[1] \in SafeWords)
  \/ (Len(seg) >= 2 /\ SubSeq(seg, 1, 2) \in SafePairs)
  \/ (Len(seg) >= 3 /\ SubSeq(seg, 1, 3) \in SafeTriples)

\* index of the first matching row of a pattern table, 0 when none matches
FirstMatch(table) ==
  IF \E i \in 1..Len(table) : table[i][1]
    THEN CHOOSE i \in 1..Len(table) : table[i][1] /\ \A j \in 1..(i-1) : ~table[j][1]
    ELSE 0

Verdict(level, reason) == [level |-> level, reason |-> reason]

IsSevere(v) == v.level \in {"blocked", "destructive"}

\* the verdict of the first segment that is blocked or destructive, if any
FirstSevere(vs) ==
  IF \E i \in 1..Len(vs) : IsSevere(vs[i])
    THEN <<vs[CHOOSE i \in 1..Len(vs) : IsSevere(vs[i]) /\ \A j \in 1..(i-1) : ~IsSevere(vs[j])]>>
    ELSE <<>>

NonEmpty(segs) == SelectSeq(segs, LAMBDA s : s # <<>>)

RECURSIVE analyseCommandToks(_)
analyseCommandToks(t) ==
  LET b == FirstMatch(BLOCKED_PATTERNS(t))
      d == FirstMatch(DESTRUCTIVE_COMMANDS(t))
      pipeSegs == SplitOn(t, {"|"})
      chainSegs == NonEmpty(SplitOn(t, {";", "&", "&&"}))
      \* a segment equal to the whole line has already passed both tables
      pipeVs == IF HasWord(t, "|")
                  THEN FirstSevere([i \in 1..Len(pipeSegs) |-> analyseCommandToks(pipeSegs[i])])
                  ELSE <<>>
      chainVs == IF \E i \in 1..Len(t) : t[i] \in {";", "&", "&&"}
                   THEN FirstSevere([i \in 1..Len(chainSegs) |->
                                        analyseCommandToks(chainSegs[i])])
                   ELSE <<>>
      firstSegment == SplitOn(t, {"|", ";", "&", "&&"})[1]
  IN IF b # 0 THEN Verdict("blocked", BLOCKED_PATTERNS(t)[b][2])
     ELSE IF d # 0 THEN Verdict("destructive", DESTRUCTIVE_COMMANDS(t)[d][2])
     ELSE IF pipeVs # <<>> THEN pipeVs[1]
     ELSE IF chainVs # <<>> THEN chainVs[1]
     ELSE IF SAFE_COMMANDS(firstSegment) THEN Verdict("safe", "Read-only command")
     ELSE Verdict("mutating", "May modify files or system state")

analyseCommand(command) == analyseCommandToks(CmdToks(command))

\* filePath.replace(/^~/, process.env.HOME ?? '~')
HomeExpand(p) == IF Len(p) > 0 /\ p[1] = "~" THEN HOME \o Tail(p) ELSE p

\* ^\/<dir>\/
UnderRoot(p, dir) == Len(p) >= 3 /\ p[1] = "/" /\ p[2] = dir /\ p[3] = "/"

\* the path with an optional leading "~" and an optional "/" after it removed,
\* in every way the prefix ^~?\/? can match
HomeRelForms(p) ==
  LET a == {p} \cup (IF Len(p) > 0 /\ p[1] = "~" THEN {Tail(p)} ELSE {})
  IN a \cup {Tail(q) : q \in {r \in a : Len(r) > 0 /\ r[1] = "/"}}

\* ^~?\/?<name>\/
HomeDir(p, name) == \E q \in HomeRelForms(p) : Len(q) >= 2 /\ q[1] = name /\ q[2] = "/"
\* ^~?\/?<dir>\/<name>   (unanchored at the end)
HomeDirFile(p, dir, name) ==
  \E q \in HomeRelForms(p) : Len(q) >= 3 /\ q[1] = dir /\ q[2] = "/" /\ q[3] = name
\* ^~?\/?<name>$
HomeFile(p, name) == \E q \in HomeRelForms(p) : q = <<name>>

BLOCKED_WRITE_PATHS(p) ==
  << <<UnderRoot(p, "etc"), "System configuration directory">>,
     <<UnderRoot(p, "usr"), "System binaries directory">>,
     <<UnderRoot(p, "bin"), "System binaries directory">>,
     <<UnderRoot(p, "sbin"), "System binaries directory">>,
     <<UnderRoot(p, "boot"), "Boot configuration directory">>,
     <<UnderRoot(p, "dev"), "Device directory">>,
     <<UnderRoot(p, "proc"), "Proc filesystem">>,
     <<UnderRoot(p, "sys"), "Sys filesystem">>,
     <<HomeDir(p, ".ssh"), "SSH keys directory">>,
     <<HomeDir(p, ".gnupg"), "GPG keys directory">>,
     <<HomeDirFile(p, ".aws", "credentials"), "AWS credentials file">>,
     <<HomeDir(p, ".azure"), "Azure credentials directory">>,
     <<HomeDirFile(p, ".kube", "config"), "Kubernetes config file">>,
     <<HomeFile(p, ".env"), "Environment secrets file">>,
     <<HomeFile(p, ".env.local"), "Environment secrets file">> >>

DESTRUCTIVE_WRITE_PATHS(p) ==
  << <<HomeFile(p, ".bashrc"), "Shell configuration file">>,
     <<HomeFile(p, ".zshrc"), "Shell configuration file">>,
     <<HomeFile(p, ".profile"), "Shell configuration file">>,
     <<HomeFile(p, ".bash_profile"), "Shell configuration file">>,
     <<HomeFile(p, ".gitconfig"), "Global git configuration">>,
     <<HomeFile(p, ".npmrc"), "npm configuration">> >>

\* a row matches when the raw path or the home-expanded path matches
EitherForm(raw, expanded) ==
  [i \in 1..Len(raw) |-> <<raw[i][1] \/ expanded[i][1], raw[i][2]>>]

analyseWritePathToks(p) ==
  LET b == FirstMatch(EitherForm(BLOCKED_WRITE_PATHS(p), BLOCKED_WRITE_PATHS(HomeExpand(p))))
      d == FirstMatch(EitherForm(DESTRUCTIVE_WRITE_PATHS(p),
                                   DESTRUCTIVE_WRITE_PATHS(HomeExpand(p))))
  IN IF b # 0 THEN Verdict("blocked", BLOCKED_WRITE_PATHS(p)[b][2])
     ELSE IF d # 0 THEN Verdict("destructive", DESTRUCTIVE_WRITE_PATHS(p)[d][2])
     ELSE Verdict("mutating", "File write")

analyseWritePath(filePath) == analyseWritePathToks(PathToks(filePath))

\* ------------------------------------------------------------ messages
NoId == 0

Message(role, content, toolCallId, toolCalls) ==
  [role |-> role, content |-> content, toolCallId |-> toolCallId, toolCalls |-> toolCalls]

SYSTEM_PROMPT == "<system prompt>"

systemMessage(content) == Message("system", content, NoId, <<>>)
userMessage(content) == Message("user", content, NoId, <<>>)
\* the toolCalls key is left out when the list is empty
assistantMessage(content, toolCalls) == Message("assistant", content, NoId, toolCalls)
\* mutant: the tool message loses the id of its call
toolResultMessage_NoId(toolCallId, content) == Message("tool", content, NoId, <<>>)
toolResultMessage(toolCallId, content) == Message("tool", content, toolCallId, <<>>)

ToolCall(id, name, arguments) == [id |-> id, name |-> name, arguments |-> arguments]

\* ------------------------------------------------- tool-call arguments
\* A JSON arguments string is the sequence of its tokens; the objects the
\* tools take have one string member.
ArgsJSON(key, value) == <<"{", key, value, "}">>

NoArgs == [path |-> Undef, command |-> Undef]

\* JSON.parse: ok is FALSE when it throws
JSONparse(a) ==
  IF a = <<"{", "}">> THEN [ok |-> TRUE, obj |-> NoArgs]
  ELSE IF Len(a) = 4 /\ a[1] = "{" /\ a[4] = "}" /\ a[2] \in {"path", "command"}
    THEN [ok |-> TRUE, obj |-> [NoArgs EXCEPT ![a[2]] = a[3]]]
  ELSE [ok |-> FALSE, obj |-> NoArgs]

\* x ?? ''
OrEmpty(x) == IF x \in {Undef, Null} THEN "" ELSE x

\* --------------------------------------------------- permission manager
\* answer.trim().toLowerCase() on a sequence of characters
IsSpace(c) == c \in {" ", "\t", "\n"}

ToLowerChar(c) ==
  CASE c = "Y" -> "y" [] c = "E" -> "e" [] c = "S" -> "s" [] c = "A" -> "a"
    [] c = "L" -> "l" [] c = "W" -> "w" [] c = "N" -> "n" [] c = "O" -> "o"
    [] OTHER -> c

RECURSIVE TrimStart(_)
TrimStart(s) == IF s # <<>> /\ IsSpace(Head(s)) THEN TrimStart(Tail(s)) ELSE s

RECURSIVE TrimEnd(_)
TrimEnd(s) == IF s # <<>> /\ IsSpace(Last(s)) THEN TrimEnd(SubSeq(s, 1, Len(s) - 1)) ELSE s

\* mutant: only trailing white space is removed
Trim_EndOnly(s) == TrimEnd(s)

Trim(s) == TrimEnd(TrimStart(s))

ToLowerCase(s) == [i \in 1..Len(s) |-> ToLowerChar(s[i])]

\* JavaScript truthiness of an optional string
Truthy(x) == x \notin {Undef, Null, ""}

\* mutant: "always" is accepted at the prompt of a destructive action too
promptUser_AlwaysOffered(toolName, escalationReason, answer, st) ==
  LET normalised == ToLowerCase(Trim(answer))
  IN IF normalised = <<"a">> \/ normalised = <<"a", "l", "w", "a", "y", "s">>
       THEN [result |-> TRUE,
             state |-> [alwaysWrite |-> st.alwaysWrite \/ toolName = "write_file",
                        alwaysShell |-> st.alwaysShell \/ toolName = "exec_shell"]]
       ELSE [result |-> normalised = <<>> \/ normalised = <<"y">>
                          \/ normalised = <<"y", "e", "s">>,
             state |-> st]

\* promptUser once the answer has been read: the result and the new state
promptUser(toolName, escalationReason, answer, st) ==
  LET normalised == ToLowerCase(Trim(answer))
  IN IF ~Truthy(escalationReason)
        /\ (normalised = <<"a">> \/ normalised = <<"a", "l", "w", "a", "y", "s">>)
       THEN [result |-> TRUE,
             state |-> [alwaysWrite |-> st.alwaysWrite \/ toolName = "write_file",
                        alwaysShell |-> st.alwaysShell \/ toolName = "exec_shell"]]
       ELSE [result |-> normalised = <<>> \/ normalised = <<"y">>
                          \/ normalised = <<"y", "e", "s">>,
             state |-> st]

\* new PermissionManager({allowWrite, allowShell})
PermissionManager(opts) == [alwaysWrite |-> opts.allowWrite, alwaysShell |-> opts.allowShell]

Decision(outcome, level, escalationReason) ==
  [outcome |-> outcome, level |-> level, escalationReason |-> escalationReason]

\* mutant: the always-flag pre-approves safe commands only
decideShell_SafeOnly(args, st, tty) ==
  LET verdict == analyseCommand(OrEmpty(args.command))
  IN IF verdict.level = "blocked" THEN Decision("deny", verdict.level, Undef)
     ELSE IF verdict.level = "safe" /\ st.alwaysShell
       THEN Decision("allow", verdict.level, Undef)
     ELSE IF verdict.level = "destructive"
       THEN IF ~tty THEN Decision("deny", verdict.level, Undef)
            ELSE Decision("prompt", verdict.level, verdict.reason)
     ELSE IF ~tty THEN Decision("deny", verdict.level, Undef)
     ELSE Decision("prompt", verdict.level, Undef)

\* check up to its return or its call of promptUser: outcome is "allow",
\* "deny" or "prompt"; escalationReason is the third argument of promptUser
decideShell(args, st, tty) ==
  LET verdict == analyseCommand(OrEmpty(args.command))
  IN IF verdict.level = "blocked" THEN Decision("deny", verdict.level, Undef)
     ELSE IF verdict.level = "safe" /\ st.alwaysShell
       THEN Decision("allow", verdict.level, Undef)
     ELSE IF verdict.level = "destructive"
       THEN IF ~tty THEN Decision("deny", verdict.level, Undef)
            ELSE Decision("prompt", verdict.level, verdict.reason)
     ELSE IF st.alwaysShell THEN Decision("allow", verdict.level, Undef)
     ELSE IF ~tty THEN Decision("deny", verdict.level, Undef)
     ELSE Decision("prompt", verdict.level, Undef)

\* mutant: the pre-approval flag is consulted before the verdict
decideWrite_FlagFirst(args, st, tty) ==
  LET verdict == analyseWritePath(OrEmpty(args.path))
  IN IF st.alwaysWrite THEN Decision("allow", verdict.level, Undef)
     ELSE IF verdict.level = "blocked" THEN Decision("deny", verdict.level, Undef)
     ELSE IF verdict.level = "destructive"
       THEN IF ~tty THEN Decision("deny", verdict.level, Undef)
            ELSE Decision("prompt", verdict.level, verdict.reason)
     ELSE IF ~tty THEN Decision("deny", verdict.level, Undef)
     ELSE Decision("prompt", verdict.level, Undef)

decideWrite(args, st, tty) ==
  LET verdict == analyseWritePath(OrEmpty(args.path))
  IN IF verdict.level = "blocked" THEN Decision("deny", verdict.level, Undef)
     ELSE IF verdict.level = "destructive"
       THEN IF ~tty THEN Decision("deny", verdict.level, Undef)
            ELSE Decision("prompt", verdict.level, verdict.reason)
     ELSE IF st.alwaysWrite THEN Decision("allow", verdict.level, Undef)
     ELSE IF ~tty THEN Decision("deny", verdict.level, Undef)
     ELSE Decision("prompt", verdict.level, Undef)

\* mutant: the terminal test is skipped
check_PromptsWithoutTTY(toolName, args, st, tty) ==
  IF toolName = "read_file" THEN Decision("allow", "none", Undef)
  ELSE IF toolName = "exec_shell" THEN decideShell(args, st, TRUE)
  ELSE IF toolName = "write_file" THEN decideWrite(args, st, TRUE)
  ELSE Decision("deny", "none", Undef)

check(toolName, args, st, tty) ==
  IF toolName = "read_file" THEN Decision("allow", "none", Undef)
  ELSE IF toolName = "exec_shell" THEN decideShell(args, st, tty)
  ELSE IF toolName = "write_file" THEN decideWrite(args, st, tty)
  ELSE Decision("deny", "none", Undef)

\* ------------------------------------------------------ tool executors
\* executeTool: the result text, thrown errors as the agent loop renders them
executeTool(tc) ==
  LET p == JSONparse(tc.arguments)
  IN IF ~p.ok THEN "Error: Failed to parse arguments"
     ELSE CASE tc.name = "read_file" ->
                 IF p.obj.path = Undef THEN "Error: Failed to read file" ELSE "<file contents>"
            [] tc.name = "write_file" ->
                 IF p.obj.path = Undef THEN "Error: Failed to write file" ELSE "Wrote 1 lines"
            [] tc.name = "exec_shell" ->
                 IF p.obj.command = Undef THEN "Error: Shell command failed"
                 ELSE "{stdout,stderr,exitCode}"
            [] OTHER -> "Error: Unknown tool"

\* what executing the call does to the machine
ToolEffect(tc) ==
  LET p == JSONparse(tc.arguments)
  IN IF ~p.ok THEN {}
     ELSE IF tc.name = "write_file" /\ p.obj.path # Undef THEN {<<"write", p.obj.path>>}
     ELSE IF tc.name = "exec_shell" /\ p.obj.command # Undef
       THEN {<<"shell", p.obj.command>>}
     ELSE {}

deniedMsg(name) ==
  CASE name = "write_file" -> "Permission denied by user. The user did not allow write_file."
    [] name = "edit_file" -> "Permission denied by user. The user did not allow edit_file."
    [] OTHER -> "Permission denied by user. The user did not allow exec_shell."

MAX_ITER_TEXT == "[Agent reached maximum iteration limit]"

\* ------------------------------------------------------------- state
VARIABLES
  auth,           \* the Agents provider's token cache, the clock and the calls for a token
  launch,         \* the disclaimer and the set-up of the chat or run command
  poll,           \* the Azure Agents adapter's thread/run call (pollRun)
  stdout,         \* what the one-shot run has written to process.stdout, in order
  jsonOutput,     \* the global CLI option --json of the one-shot run
  indexer,        \* the call of indexFilesWithMeta in progress
  edit,           \* the call of executeEditFile in progress and the file it edits
  classified,     \* the latest input and verdict of the safety classifier
  toolsSent,      \* completionOptions.tools of the latest provider call
  flags,          \* the global CLI options --allow-write and --allow-shell
  session,        \* "run" (cli/run.ts) or "chat" (cli/chat.ts)
  stream,         \* AgentOptions.stream
  isTTY,          \* process.stdin.isTTY
  state,          \* PermissionManager.state
  provider,       \* the mock provider: its mode, the tool turns it has left, its next call id
  history,        \* the driver's history list
  messages,       \* runAgent's working conversation
  pc,             \* where the program is suspended
  iteration,      \* runAgent's loop counter
  toolCallCount,  \* runAgent's toolCallCount
  tcIndex,        \* position in responseMessage.toolCalls (1-based)
  providerCalls,  \* provider calls made by the current run
  lastCheck,      \* the latest PermissionManager.check: arguments, decision, answer
  promptCount,    \* rl.question calls made by promptUser
  executed,       \* the tool calls handed to executeTool, in order
  effects,        \* files written and commands run by the executors
  result,         \* the latest AgentResult
  canon,          \* the assistant turns the provider delivered in the current run
  turns,          \* user turns taken in the REPL session
  streaming,      \* handleStreaming: the chunks not yet read, content, toolCallsMap
  sse             \* an SSE parser: the bytes not yet read, buffer, parser state, chunks yielded

vars == <<turns, streaming, sse, toolsSent, classified, edit, indexer, jsonOutput, stdout, poll, launch, auth, flags, session, stream, isTTY, state, provider, history, messages, pc, iteration,
          toolCallCount, tcIndex, providerCalls, lastCheck, promptCount, executed,
          effects, result, canon>>

\* mutant: the loop condition is off by one (iteration <= maxIter)
maxIter_OffByOne == DEFAULT_MAX_ITERATIONS + 1

maxIter == DEFAULT_MAX_ITERATIONS

NoAnswer == <<"<none>">>

NoCheck == [id |-> NoId, tool |-> "none", args |-> NoArgs, level |-> "none",
            pre |-> [alwaysWrite |-> FALSE, alwaysShell |-> FALSE], tty |-> FALSE,
            outcome |-> "none", escalationReason |-> Undef,
            answer |-> NoAnswer, result |-> "none"]

NoResult == [messages |-> <<>>, finalContent |-> Undef, toolCallCount |-> 0]

\* the classifier was not called yet
NoVerdict == [kind |-> "none", input |-> <<>>, verdict |-> Verdict("none", "")]

\* executeEditFile is not being called
NoEdit ==
  [pc |-> "idle", file |-> <<>>, readable |-> TRUE, writable |-> TRUE,
   args |-> [old_string |-> <<>>, new_string |-> <<>>, replace_all |-> FALSE],
   content |-> <<>>, count |-> 0, pos |-> 0, newContent |-> <<>>, replacements |-> 0,
   result |-> [kind |-> "none", count |-> 0]]

\* IndexResult before indexFilesWithMeta has returned
NoIndexResult ==
  [files |-> EmptyBag, timedOut |-> FALSE, method |-> "none", skippedLarge |-> 0,
   skippedBinary |-> 0, skippedIgnored |-> 0]

\* indexFilesWithMeta is not being called
NoIndex ==
  [pc |-> "idle", inGit |-> FALSE, gitOk |-> FALSE, hasIgnoreFile |-> FALSE, bulk |-> 0,
   ignorePatterns |-> <<>>, expired |-> FALSE, position |-> 0, stack |-> <<>>,
   files |-> EmptyBag, visitedRealPaths |-> {}, skippedLarge |-> 0, skippedBinary |-> 0,
   skippedIgnored |-> 0, examined |-> 0, readDirs |-> {}, followed |-> <<>>,
   result |-> NoIndexResult]

\* createChatCompletion of the Azure Agents adapter is not being called
NoPoll ==
  [pc |-> "idle", now |-> 0, interval |-> 0, status |-> "none", polls |-> 0,
   waits |-> <<>>, completedRun |-> "none", result |-> [kind |-> "none"]]

\* the command has not called ensureDisclaimer (runAgent is called directly);
\* `earlier` tells that an earlier session of the user accepted the disclaimer
NoLaunch ==
  [shown |-> FALSE, answer |-> NoAnswer, accepted |-> FALSE, indexed |-> FALSE,
   task |-> Undef, earlier |-> FALSE, sessionNo |-> 1]

\* no provider call was made yet
\* no token cached, nobody asking for one
NoToken == [value |-> 0, expiresAt |-> 0]

NoAuth ==
  [now |-> 0, steps |-> <<>>, cachedToken |-> NoToken, issued |-> <<>>, spawns |-> 0,
   calls |-> [c \in {} |-> 0]]

NotCalled == <<"<not called>">>

NoStream == [chunks |-> <<>>, read |-> <<>>, content |-> "", toolCallsMap |-> <<>>]

NoSSE == [kind |-> "none", wire |-> <<>>, pos |-> 0, buffer |-> <<>>, currentEvent |-> "",
          pending |-> <<>>, out |-> <<>>, returned |-> FALSE, thrown |-> <<>>]

\* the raw lines a user may type at a permission prompt
Answers == {<<>>, <<" ", "Y">>, <<"y", "e", "s">>, <<"A">>,
            <<"a", "l", "w", "a", "y", "s">>, <<"n">>}

\* ---------------------------------------------------- the mock provider
ReadCall == [name |-> "read_file", arguments |-> ArgsJSON("path", "src/x")]

GrepCall == [name |-> "grep_search", arguments |-> <<"{", "}">>]

\* the tool-call lists the mock provider chooses from in menu mode
Menu ==
  { <<ReadCall>>,
    <<[name |-> "write_file", arguments |-> ArgsJSON("path", "src/x")],
      [name |-> "exec_shell", arguments |-> ArgsJSON("command", "ls")]>>,
    <<[name |-> "write_file", arguments |-> ArgsJSON("path", "/etc/passwd")],
      [name |-> "edit_file", arguments |-> ArgsJSON("path", "src/x")]>>,
    <<[name |-> "exec_shell", arguments |-> ArgsJSON("command", "rm x")],
      [name |-> "write_file", arguments |-> ArgsJSON("path", "~/.bashrc")]>>,
    <<[name |-> "exec_shell", arguments |-> ArgsJSON("command", "rm -rf /")],
      [name |-> "exec_shell", arguments |-> ArgsJSON("command", "npm i")]>>,
    <<[name |-> "exec_shell", arguments |-> <<"{", "command">>],
      [name |-> "edit_file", arguments |-> ArgsJSON("path", "~/.bashrc")]>>,
    <<[name |-> "write_file", arguments |-> <<"{", "path">>],
      [name |-> "read_file", arguments |-> <<"{", "path">>]>> }

WithIds(calls, first) ==
  [i \in 1..Len(calls) |-> ToolCall(first + i - 1, calls[i].name, calls[i].arguments)]

\* the assistant messages the provider may answer with
ProviderTurns ==
  {assistantMessage("hello", <<>>)} \cup
  (IF provider.left = 0 THEN {}
   ELSE IF provider.mode = "loop"
     THEN {assistantMessage(Null, WithIds(<<ReadCall>>, provider.nextId))}
   ELSE IF provider.mode = "reader"
     THEN {assistantMessage(Null, WithIds(m, provider.nextId)) :
             m \in {<<ReadCall>>, <<ReadCall, GrepCall>>}}
   ELSE {assistantMessage(Null, WithIds(m, provider.nextId)) : m \in Menu})

ProviderAfter(resp) ==
  [provider EXCEPT !.left = IF resp.toolCalls = <<>> THEN @ ELSE @ - 1,
                   !.nextId = @ + Len(resp.toolCalls)]

\* ------------------------------------------------------- the agent loop
\* mutant: the tools the permission state does not pre-approve are withheld
getAllTools_Enabled ==
  SelectSeq(<<"read_file", "write_file", "edit_file", "grep_search", "glob_find", "exec_shell">>,
            LAMBDA t : /\ t \in {"write_file", "edit_file"} => state.alwaysWrite
                       /\ t = "exec_shell" => state.alwaysShell)

\* tools/schema.ts getAllTools: the names of the tool definitions
getAllTools ==
  <<"read_file", "write_file", "edit_file", "grep_search", "glob_find", "exec_shell">>

\* tools: tools.length > 0 ? tools : undefined, with
\* tools = provider.supportsTools ? getAllTools() : []
completionOptionsTools ==
  LET tools == IF provider.supportsTools THEN getAllTools ELSE <<>>
  IN IF Len(tools) > 0 THEN tools ELSE <<Undef>>

\* responseMessage.toolCalls of the current iteration
CurrentCalls ==
  LET idx == CHOOSE i \in 1..Len(messages) :
                 messages[i].role = "assistant"
                 /\ \A j \in (i+1)..Len(messages) : messages[j].role # "assistant"
  IN messages[idx].toolCalls

\* mutant: the returned conversation leaves out the system message
Return_WithoutSystem(msgs, finalContent, count) ==
  /\ messages' = msgs
  /\ result' = [messages |-> Tail(msgs), finalContent |-> finalContent,
                toolCallCount |-> count]
  /\ tcIndex' = 0
  /\ UNCHANGED iteration
  /\ IF session = "chat"
       THEN history' = Tail(msgs) /\ pc' = "repl"
       ELSE pc' = "done" /\ UNCHANGED history

\* runAgent returns; in the REPL the driver then replaces its history
Return(msgs, finalContent, count) ==
  /\ messages' = msgs
  /\ result' = [messages |-> msgs, finalContent |-> finalContent, toolCallCount |-> count]
  /\ tcIndex' = 0
  /\ UNCHANGED iteration
  /\ IF session = "chat"
       THEN history' = Tail(msgs) /\ pc' = "repl"
       ELSE pc' = "done" /\ UNCHANGED history

\* mutant: the loop goes to the next provider call after one tool call
Continue_AfterFirst(msgs, count) ==
  IF iteration + 1 < maxIter
    THEN /\ messages' = msgs
         /\ tcIndex' = 0
         /\ pc' = "provider"
         /\ iteration' = iteration + 1
         /\ UNCHANGED <<result, history>>
  ELSE Return(msgs, MAX_ITER_TEXT, count)

\* the end of the body of `for (const tc of responseMessage.toolCalls)`
Continue(msgs, count) ==
  IF tcIndex < Len(CurrentCalls)
    THEN /\ messages' = msgs
         /\ tcIndex' = tcIndex + 1
         /\ pc' = "tool"
         /\ UNCHANGED <<iteration, result, history>>
  ELSE IF iteration + 1 < maxIter
    THEN /\ messages' = msgs
         /\ tcIndex' = 0
         /\ pc' = "provider"
         /\ iteration' = iteration + 1
         /\ UNCHANGED <<result, history>>
  ELSE Return(msgs, MAX_ITER_TEXT, count)

\* the response message is pushed; the loop returns or starts on the tool calls
Respond(resp) ==
  IF resp.toolCalls = <<>>
    THEN Return(Append(messages, resp), OrEmpty(resp.content), toolCallCount)
    ELSE /\ messages' = Append(messages, resp)
         /\ tcIndex' = 1
         /\ pc' = "tool"
         /\ UNCHANGED <<iteration, result, history>>

\* non-streaming turn: provider.createChatCompletion resolves
ProviderRespond ==
  /\ pc = "provider"
  /\ toolsSent' = completionOptionsTools
  /\ ~stream
  /\ \E resp \in ProviderTurns :
       /\ provider' = ProviderAfter(resp)
       /\ canon' = Append(canon, resp)
       /\ Respond(resp)
  /\ providerCalls' = providerCalls + 1
  /\ UNCHANGED <<turns, streaming, sse, classified, edit, indexer, jsonOutput, stdout, poll, launch, auth, flags, session, stream, isTTY, state, toolCallCount, lastCheck, promptCount,
                 executed, effects>>

\* mutant: a failed provider call is made again
ProviderFail_Retries ==
  /\ pc = "provider"
  /\ toolsSent' = completionOptionsTools
  /\ providerCalls < DEFAULT_MAX_ITERATIONS
  /\ providerCalls' = providerCalls + 1
  /\ pc' = "provider"
  /\ UNCHANGED <<turns, streaming, sse, classified, edit, indexer, jsonOutput, stdout, poll, launch, auth, flags, session, stream, isTTY, state, provider,
                 history, messages, iteration, toolCallCount, tcIndex, lastCheck,
                 promptCount, executed, effects, result, canon>>

\* the provider call rejects: runAgent rejects, run.ts exits, chat.ts reports
ProviderFail ==
  /\ pc = "provider"
  /\ toolsSent' = completionOptionsTools
  /\ providerCalls' = providerCalls + 1
  /\ pc' = IF session = "chat" THEN "repl" ELSE "failed"
  /\ UNCHANGED <<turns, streaming, sse, classified, edit, indexer, jsonOutput, stdout, poll, launch, auth, flags, session, stream, isTTY, state, provider, history, messages, iteration,
                 toolCallCount, tcIndex, lastCheck, promptCount, executed, effects,
                 result, canon>>

\* ------------------------------------------ the callbacks of cli/run.ts
\* What the one-shot run writes to process.stdout; the callbacks of the
\* REPL (cli/chat.ts) are not modelled and leave stdout as it is.
Written(kind) == [kind |-> kind]

\* onToken: process.stdout.write(token), unset with --json
onToken == IF jsonOutput THEN <<>> ELSE <<Written("token")>>

\* onToolCall: an empty line and formatToolCallStart, unset with --json
onToolCall == IF jsonOutput THEN <<>> ELSE <<Written("newline"), Written("tool call")>>

\* onToolResult: formatToolResult, unset with --json
onToolResult == IF jsonOutput THEN <<>> ELSE <<Written("tool result")>>

\* what permissions.check and promptUser print with console.log and through
\* the readline interface on stdout
checkWrites(d) ==
  IF d.outcome = "deny" /\ d.level = "blocked" THEN <<Written("blocked warning")>>
  ELSE IF d.outcome = "prompt"
    THEN (IF d.escalationReason # Undef THEN <<Written("destructive warning")>> ELSE <<>>)
         \o <<Written("permission request"), Written("permission prompt")>>
  ELSE <<>>

Writes(written) == stdout' = IF session = "run" THEN stdout \o written ELSE stdout

\* mutant: the denial is not pushed to the conversation
Denied_NotPushed(tc) == messages

Denied(tc) == Append(messages, toolResultMessage(tc.id, deniedMsg(tc.name)))

\* mutant: JSON.parse of the arguments is not guarded by try/catch
BeginToolCall_ParseThrows ==
  /\ pc = "tool"
  /\ LET tc == CurrentCalls[tcIndex]
         parsed == JSONparse(tc.arguments)
         d == check(tc.name, parsed.obj, state, isTTY)
     IN /\ toolCallCount' = toolCallCount + 1
        /\ IF ~parsed.ok
             THEN /\ pc' = "failed"
                  /\ UNCHANGED <<lastCheck, promptCount, messages, tcIndex, iteration,
                                 result, history>>
           ELSE IF tc.name \in DANGEROUS_TOOLS
             THEN /\ lastCheck' = [id |-> tc.id, tool |-> tc.name, args |-> parsed.obj,
                                   level |-> d.level, pre |-> state, tty |-> isTTY,
                                   outcome |-> d.outcome,
                                   escalationReason |-> d.escalationReason,
                                   answer |-> NoAnswer,
                                   result |-> IF d.outcome = "prompt" THEN "pending"
                                              ELSE d.outcome]
                  /\ promptCount' = IF d.outcome = "prompt" THEN promptCount + 1
                                    ELSE promptCount
                  /\ IF d.outcome = "deny"
                       THEN Continue(Denied(tc), toolCallCount + 1)
                       ELSE /\ pc' = IF d.outcome = "prompt" THEN "prompt" ELSE "exec"
                            /\ UNCHANGED <<messages, tcIndex, iteration, result, history>>
             ELSE /\ pc' = "exec"
                  /\ UNCHANGED <<lastCheck, promptCount, messages, tcIndex, iteration,
                                 result, history>>
  /\ UNCHANGED <<turns, streaming, sse, toolsSent, classified, edit, indexer, jsonOutput, poll, launch, auth, flags, session, stream, isTTY, state, provider, providerCalls, executed,
                 effects, canon>>
  /\ LET tc == CurrentCalls[tcIndex]
         parsed == JSONparse(tc.arguments)
         d == check(tc.name, parsed.obj, state, isTTY)
     IN Writes(IF ~parsed.ok THEN <<>>
               ELSE onToolCall \o
                    (IF tc.name \in DANGEROUS_TOOLS
                       THEN checkWrites(d) \o
                            (IF d.outcome = "deny" THEN onToolResult ELSE <<>>)
                       ELSE <<>>))

\* a tool call starts: count, parse, onToolCall, and for a gated tool
\* onPermissionRequest = permissions.check up to its return or its prompt
BeginToolCall ==
  /\ pc = "tool"
  /\ LET tc == CurrentCalls[tcIndex]
         parsed == JSONparse(tc.arguments)
         args == IF parsed.ok THEN parsed.obj ELSE NoArgs
         d == check(tc.name, args, state, isTTY)
     IN /\ toolCallCount' = toolCallCount + 1
        /\ IF tc.name \in DANGEROUS_TOOLS
             THEN /\ lastCheck' = [id |-> tc.id, tool |-> tc.name, args |-> args,
                                   level |-> d.level, pre |-> state, tty |-> isTTY,
                                   outcome |-> d.outcome,
                                   escalationReason |-> d.escalationReason,
                                   answer |-> NoAnswer,
                                   result |-> IF d.outcome = "prompt" THEN "pending"
                                              ELSE d.outcome]
                  /\ promptCount' = IF d.outcome = "prompt" THEN promptCount + 1
                                    ELSE promptCount
                  /\ IF d.outcome = "deny"
                       THEN Continue(Denied(tc), toolCallCount + 1)
                       ELSE /\ pc' = IF d.outcome = "prompt" THEN "prompt" ELSE "exec"
                            /\ UNCHANGED <<messages, tcIndex, iteration, result, history>>
             ELSE /\ pc' = "exec"
                  /\ UNCHANGED <<lastCheck, promptCount, messages, tcIndex, iteration,
                                 result, history>>
  /\ UNCHANGED <<turns, streaming, sse, toolsSent, classified, edit, indexer, jsonOutput, poll, launch, auth, flags, session, stream, isTTY, state, provider, providerCalls, executed,
                 effects, canon>>
  /\ LET tc == CurrentCalls[tcIndex]
         parsed == JSONparse(tc.arguments)
         d == check(tc.name, IF parsed.ok THEN parsed.obj ELSE NoArgs, state, isTTY)
     IN Writes(onToolCall \o
               (IF tc.name \in DANGEROUS_TOOLS
                  THEN checkWrites(d) \o (IF d.outcome = "deny" THEN onToolResult ELSE <<>>)
                  ELSE <<>>))

\* rl.question resolves inside promptUser; check returns its result
AnswerPrompt ==
  /\ pc = "prompt"
  /\ \E answer \in Answers :
       LET tc == CurrentCalls[tcIndex]
           r == promptUser(tc.name, lastCheck.escalationReason, answer, state)
       IN /\ state' = r.state
          /\ lastCheck' = [lastCheck EXCEPT !.answer = answer,
                                            !.result = IF r.result THEN "allow" ELSE "deny"]
          /\ IF r.result
               THEN /\ pc' = "exec"
                    /\ UNCHANGED <<messages, tcIndex, iteration, result, history>>
               ELSE Continue(Denied(tc), toolCallCount)
  /\ UNCHANGED <<turns, streaming, sse, toolsSent, classified, edit, indexer, jsonOutput, poll, launch, auth, flags, session, stream, isTTY, provider, toolCallCount, providerCalls,
                 promptCount, executed, effects, canon>>
  /\ Writes(IF pc' = "exec" THEN <<>> ELSE onToolResult)

\* mutant: an error thrown by executeTool is not caught
ExecuteTool_Rethrows ==
  /\ pc = "exec"
  /\ LET tc == CurrentCalls[tcIndex]
     IN /\ executed' = Append(executed, tc)
        /\ effects' = effects \cup ToolEffect(tc)
        /\ IF executeTool(tc) \in {"Error: Failed to parse arguments", "Error: Unknown tool"}
             THEN /\ pc' = "failed"
                  /\ UNCHANGED <<messages, tcIndex, iteration, result, history>>
             ELSE Continue(Append(messages, toolResultMessage(tc.id, executeTool(tc))),
                           toolCallCount)
  /\ UNCHANGED <<turns, streaming, sse, toolsSent, classified, edit, indexer, jsonOutput, poll, launch, auth, flags, session, stream, isTTY, state, provider,
                 toolCallCount, providerCalls, lastCheck, promptCount, canon>>
  /\ Writes(IF pc' = "failed" THEN <<>> ELSE onToolResult)

\* executeTool settles; its result or its error text becomes the tool message
ExecuteTool ==
  /\ pc = "exec"
  /\ LET tc == CurrentCalls[tcIndex]
     IN /\ executed' = Append(executed, tc)
        /\ effects' = effects \cup ToolEffect(tc)
        /\ Continue(Append(messages, toolResultMessage(tc.id, executeTool(tc))),
                    toolCallCount)
  /\ UNCHANGED <<turns, streaming, sse, toolsSent, classified, edit, indexer, jsonOutput, poll, launch, auth, flags, session, stream, isTTY, state, provider, toolCallCount, providerCalls,
                 lastCheck, promptCount, canon>>
  /\ Writes(onToolResult)

\* ---------------------------------------------- one-shot run (cli/run.ts)
InitRun ==
  /\ session = "run"
  /\ stream = FALSE
  /\ isTTY \in BOOLEAN
  /\ flags \in [allowWrite : BOOLEAN, allowShell : BOOLEAN]
  /\ state = PermissionManager(flags)
  /\ provider \in {[mode |-> "menu", left |-> MaxToolTurns, nextId |-> 1, supportsTools |-> TRUE],
                   [mode |-> "loop", left |-> LoopTurns, nextId |-> 1, supportsTools |-> TRUE],
                   [mode |-> "menu", left |-> 0, nextId |-> 1, supportsTools |-> FALSE]}
  /\ history = <<userMessage("task")>>
  /\ messages = <<systemMessage(SYSTEM_PROMPT)>> \o history
  /\ pc = "provider"
  /\ iteration = 0
  /\ toolCallCount = 0
  /\ tcIndex = 0
  /\ providerCalls = 0
  /\ lastCheck = NoCheck
  /\ promptCount = 0
  /\ executed = <<>>
  /\ effects = {}
  /\ result = NoResult
  /\ canon = <<>>
  /\ turns = 0
  /\ streaming = NoStream
  /\ auth = NoAuth
  /\ launch = NoLaunch
  /\ poll = NoPoll
  /\ stdout = <<>>
  /\ jsonOutput = FALSE
  /\ indexer = NoIndex
  /\ edit = NoEdit
  /\ classified = NoVerdict
  /\ toolsSent = NotCalled
  /\ sse = NoSSE

Init == InitRun

Next ==
  \/ ProviderRespond
  \/ ProviderFail
  \/ BeginToolCall
  \/ AnswerPrompt
  \/ ExecuteTool

Spec == Init /\ [][Next]_vars

\* ------------------------------------------------------------ claims
BeginsPermissionDenied(text) ==
  text \in {"Permission denied by user. The user did not allow write_file.",
            "Permission denied by user. The user did not allow edit_file.",
            "Permission denied by user. The user did not allow exec_shell."}

ToolMessagesFor(msgs, id) == {i \in 1..Len(msgs) : msgs[i].role = "tool" /\ msgs[i].toolCallId = id}

ExecutedIds == {executed[i].id : i \in 1..Len(executed)}

\* C1: when the permission request of a gated tool call is answered false,
\* that step appends exactly one tool message with the call's id and a text
\* beginning "Permission denied", hands nothing to the executor, and leaves
\* the loop at the next tool call of the same assistant message or, after
\* the last one, at the next provider call (at the return, once the
\* iteration limit is reached); the denied call is never executed later.
C1_DenialContinues ==
  [][(lastCheck' # lastCheck /\ lastCheck'.result = "deny") =>
       /\ lastCheck'.tool \in DANGEROUS_TOOLS
       /\ Len(messages') = Len(messages) + 1
       /\ Last(messages').role = "tool"
       /\ Last(messages').toolCallId = lastCheck'.id
       /\ BeginsPermissionDenied(Last(messages').content)
       /\ SubSeq(messages', 1, Len(messages)) = messages
       /\ executed' = executed
       /\ effects' = effects
       /\ IF tcIndex < Len(CurrentCalls)
            THEN pc' = "tool" /\ tcIndex' = tcIndex + 1
            ELSE IF iteration + 1 < DEFAULT_MAX_ITERATIONS
              THEN pc' = "provider"
              ELSE pc' = "done"
       /\ \A i \in 1..Len(messages') :
            (messages'[i].role = "tool" /\ BeginsPermissionDenied(messages'[i].content)) =>
              /\ messages'[i].toolCallId \notin ExecutedIds
              /\ Cardinality(ToolMessagesFor(messages', messages'[i].toolCallId)) = 1
  ]_vars

\* a denied first call, the second call of the same message handled, and the
\* next provider call answered
C1_Witness ==
  \E i \in 1..Len(messages) :
    /\ messages[i].role = "tool"
    /\ BeginsPermissionDenied(messages[i].content)
    /\ i + 2 <= Len(messages)
    /\ messages[i+1].role = "tool"
    /\ messages[i+1].toolCallId \in ExecutedIds
    /\ messages[i+2].role = "assistant"

ArgsOf(tc) == LET p == JSONparse(tc.arguments) IN IF p.ok THEN p.obj ELSE NoArgs

LevelOf(tool, args) ==
  CASE tool = "exec_shell" -> analyseCommand(OrEmpty(args.command)).level
    [] tool = "write_file" -> analyseWritePath(OrEmpty(args.path)).level
    [] OTHER -> "none"

\* C2: a check of an exec_shell command or a write_file path classified
\* blocked is denied without a prompt and leaves the permission state as it
\* was, whatever the always-flags and the terminal; no such call is ever
\* handed to an executor and no blocked path is written.
C2_BlockedAlwaysDenied ==
  /\ LevelOf(lastCheck.tool, lastCheck.args) = "blocked" =>
       /\ lastCheck.outcome = "deny"
       /\ lastCheck.result = "deny"
       /\ lastCheck.answer = NoAnswer
       /\ state = lastCheck.pre
       /\ pc # "prompt"
  /\ \A i \in 1..Len(executed) :
       LevelOf(executed[i].name, ArgsOf(executed[i])) # "blocked"
  /\ <<"write", "/etc/passwd">> \notin effects
  /\ <<"shell", "rm -rf /">> \notin effects

\* /etc/passwd is refused although --allow-write is set
C2_Witness ==
  /\ lastCheck.tool = "write_file"
  /\ lastCheck.args.path = "/etc/passwd"
  /\ lastCheck.pre.alwaysWrite
  /\ lastCheck.result = "deny"
  /\ \E i \in 1..Len(messages) :
       messages[i].role = "tool" /\ messages[i].toolCallId = lastCheck.id

YesAnswers == {<<>>, <<"y">>, <<"y", "e", "s">>}

\* C3: a check of a call classified destructive is allowed only after a
\* prompt issued in that check and answered (trimmed, lower-cased) with
\* empty, y or yes, also when the matching always-flag is set; without a
\* terminal it is denied without a prompt; no answer changes the flags.
C3_DestructiveAlwaysPrompts ==
  LevelOf(lastCheck.tool, lastCheck.args) = "destructive" =>
    /\ lastCheck.result = "allow" =>
         /\ lastCheck.outcome = "prompt"
         /\ ToLowerCase(Trim(lastCheck.answer)) \in YesAnswers
    /\ lastCheck.tty => lastCheck.outcome = "prompt"
    /\ ~lastCheck.tty => (lastCheck.outcome = "deny" /\ lastCheck.result = "deny")
    /\ state = lastCheck.pre

\* "always" typed at the prompt of a destructive command, --allow-shell set
C3_Witness ==
  /\ lastCheck.tool = "exec_shell"
  /\ LevelOf(lastCheck.tool, lastCheck.args) = "destructive"
  /\ lastCheck.pre.alwaysShell
  /\ lastCheck.answer = <<"a", "l", "w", "a", "y", "s">>
  /\ lastCheck.result = "deny"

\* C4: a check of edit_file takes the decision the check of write_file takes
\* for the same path, permission state and terminal, and an allowed
\* edit_file call is dispatched to its executor.
C4_EditMirrorsWrite ==
  /\ lastCheck.tool = "edit_file" =>
       lastCheck.outcome = check("write_file", lastCheck.args, lastCheck.pre, lastCheck.tty).outcome
  /\ \A i \in 1..Len(executed) :
       executed[i].name = "edit_file" => executeTool(executed[i]) # "Error: Unknown tool"

AssistantTurns(msgs) == SelectSeq(msgs, LAMBDA m : m.role = "assistant")

\* C5: a run makes at most 20 provider calls; a run whose first 20 assistant
\* messages all carry tool calls returns after exactly 20 provider calls with
\* the iteration-limit text, and with toolCallCount 20 when every turn
\* carries one call.
C5_IterationCap ==
  /\ providerCalls <= 20
  /\ Len(AssistantTurns(messages)) <= 20
  /\ (pc = "done" /\ Len(AssistantTurns(result.messages)) >= 20
        /\ \A i \in 1..20 : AssistantTurns(result.messages)[i].toolCalls # <<>>) =>
       /\ providerCalls = 20
       /\ result.finalContent = MAX_ITER_TEXT
       /\ (\A i \in 1..20 : Len(AssistantTurns(result.messages)[i].toolCalls) = 1)
            => result.toolCallCount = 20
  /\ (pc \in {"tool", "prompt", "exec"} /\ Len(AssistantTurns(messages)) = 20) =>
       providerCalls = 20

C5_Witness ==
  /\ pc = "done"
  /\ providerCalls = 20
  /\ result.finalContent = MAX_ITER_TEXT
  /\ result.toolCallCount = 20
  /\ provider.left > 0

\* C6: in a returned conversation every assistant message with tool calls
\* c1..cn is followed at once by exactly n tool messages, the k-th with the
\* id of ck, and the message after them is not a tool message.
WellPaired(msgs) ==
  \A i \in 1..Len(msgs) :
    (msgs[i].role = "assistant" /\ msgs[i].toolCalls # <<>>) =>
      LET n == Len(msgs[i].toolCalls)
      IN /\ i + n <= Len(msgs)
         /\ \A k \in 1..n : /\ msgs[i+k].role = "tool"
                            /\ msgs[i+k].toolCallId = msgs[i].toolCalls[k].id
         /\ (i + n + 1 <= Len(msgs) => msgs[i+n+1].role # "tool")

C6_ToolResultsInOrder == result # NoResult => WellPaired(result.messages)

\* a returned conversation with a two-call turn, one call denied, one executed
C6_Witness ==
  /\ result # NoResult
  /\ \E i \in 1..Len(result.messages) :
       /\ Len(result.messages[i].toolCalls) = 2
       /\ BeginsPermissionDenied(result.messages[i+1].content)
       /\ result.messages[i+2].toolCallId \in ExecutedIds

\* ------------------------------------------------ the REPL (cli/chat.ts)
\* user turns of one REPL session
MaxUserTurns == 2
\* tool-call turns the mock provider emits in one REPL session
MaxReplToolTurns == 2

\* history.push(userMessage(...)); runAgent(history, agentOptions) starts
UserTurn ==
  /\ pc = "repl"
  /\ turns < MaxUserTurns
  /\ turns' = turns + 1
  /\ history' = Append(history, userMessage("hi"))
  /\ messages' = <<systemMessage(SYSTEM_PROMPT)>> \o history'
  /\ pc' = "provider"
  /\ iteration' = 0
  /\ toolCallCount' = 0
  /\ tcIndex' = 0
  /\ providerCalls' = 0
  /\ canon' = <<>>
  /\ UNCHANGED <<streaming, sse, toolsSent, classified, edit, indexer, jsonOutput, stdout, poll, launch, auth, flags, session, stream, isTTY, state, provider, lastCheck,
                 promptCount, executed, effects, result>>

\* mutant: /clear also resets the permission state
Clear_ResetsPermissions ==
  /\ pc = "repl"
  /\ history' = <<>>
  /\ state' = [alwaysWrite |-> FALSE, alwaysShell |-> FALSE]
  /\ UNCHANGED <<turns, streaming, sse, toolsSent, classified, edit, indexer, jsonOutput, stdout, poll, launch, auth, flags, session, stream, isTTY, provider, messages,
                 pc, iteration, toolCallCount, tcIndex, providerCalls, lastCheck,
                 promptCount, executed, effects, result, canon>>

\* /clear
Clear ==
  /\ pc = "repl"
  /\ history' = <<>>
  /\ UNCHANGED <<turns, streaming, sse, toolsSent, classified, edit, indexer, jsonOutput, stdout, poll, launch, auth, flags, session, stream, isTTY, state, provider, messages,
                 pc, iteration, toolCallCount, tcIndex, providerCalls, lastCheck,
                 promptCount, executed, effects, result, canon>>

\* history.splice(0, history.length - 4): the last four messages stay
compact(h) == IF Len(h) > 4 THEN SubSeq(h, Len(h) - 3, Len(h)) ELSE h

\* /compact
Compact ==
  /\ pc = "repl"
  /\ history' = compact(history)
  /\ UNCHANGED <<turns, streaming, sse, toolsSent, classified, edit, indexer, jsonOutput, stdout, poll, launch, auth, flags, session, stream, isTTY, state, provider, messages,
                 pc, iteration, toolCallCount, tcIndex, providerCalls, lastCheck,
                 promptCount, executed, effects, result, canon>>

InitRepl ==
  /\ session = "chat"
  /\ stream = FALSE
  /\ isTTY = TRUE
  /\ flags \in [allowWrite : BOOLEAN, allowShell : BOOLEAN]
  /\ state = PermissionManager(flags)
  /\ provider = [mode |-> "reader", left |-> MaxReplToolTurns, nextId |-> 1, supportsTools |-> TRUE]
  /\ history = <<>>
  /\ messages = <<>>
  /\ pc = "repl"
  /\ iteration = 0
  /\ toolCallCount = 0
  /\ tcIndex = 0
  /\ providerCalls = 0
  /\ lastCheck = NoCheck
  /\ promptCount = 0
  /\ executed = <<>>
  /\ effects = {}
  /\ result = NoResult
  /\ canon = <<>>
  /\ turns = 0
  /\ streaming = NoStream
  /\ auth = NoAuth
  /\ launch = NoLaunch
  /\ poll = NoPoll
  /\ stdout = <<>>
  /\ jsonOutput = FALSE
  /\ indexer = NoIndex
  /\ edit = NoEdit
  /\ classified = NoVerdict
  /\ toolsSent = NotCalled
  /\ sse = NoSSE

NextRepl ==
  \/ UserTurn
  \/ Clear
  \/ Compact
  \/ ProviderRespond
  \/ ProviderFail
  \/ BeginToolCall
  \/ ExecuteTool

SpecRepl == InitRepl /\ [][NextRepl]_vars

\* C7: at every provider call of a REPL session the conversation has its one
\* system message at index 0 and every tool message comes after an assistant
\* message whose tool calls contain its toolCallId.
WellFormed(msgs) ==
  /\ Len(msgs) >= 1
  /\ msgs[1].role = "system"
  /\ \A i \in 2..Len(msgs) : msgs[i].role # "system"
  /\ \A i \in 1..Len(msgs) :
       msgs[i].role = "tool" =>
         \E j \in 1..(i-1) :
           /\ msgs[j].role = "assistant"
           /\ \E k \in 1..Len(msgs[j].toolCalls) : msgs[j].toolCalls[k].id = msgs[i].toolCallId

C7_ConversationWellFormed == pc = "provider" => WellFormed(messages)

\* ------------------------------------- streaming (handleStreaming)
\* tool-call turns the mock provider emits in one streamed run
MaxStreamToolTurns == 1
\* the pieces the arguments of one streamed tool call are cut into, at most
MaxPieces == 2

\* a += b on the text fragments the mock provider streams
StrCat(a, b) ==
  IF a = "" THEN b
  ELSE IF b = "" THEN a
  ELSE IF <<a, b>> = <<"hel", "lo">> THEN "hello"
  ELSE IF <<a, b>> = <<"read_", "file">> THEN "read_file"
  ELSE "<other text>"

\* StreamChunk: delta.content, delta.toolCalls (Partial<ToolCall>[]), finishReason
Chunk(content, toolCalls, finishReason) ==
  [content |-> content, toolCalls |-> toolCalls, finishReason |-> finishReason]

\* Partial<ToolCall>: id absent is NoId, name absent is Undef, arguments
\* absent is the empty string
Fragment(id, name, arguments) == [id |-> id, name |-> name, arguments |-> arguments]

\* the ways of cutting a token sequence into at most k consecutive pieces
RECURSIVE Splits(_, _)
Splits(a, k) ==
  IF k <= 1 \/ Len(a) <= 1 THEN {<<a>>}
  ELSE {<<a>>} \cup
       UNION {{<<SubSeq(a, 1, i)>> \o r : r \in Splits(SubSeq(a, i + 1, Len(a)), k - 1)} :
                i \in 1..(Len(a) - 1)}

\* the fragment sequences a provider may stream one tool call as: the id
\* comes with the first fragment, the arguments whole or in pieces
FragLists(c) ==
  LET later(s, from) == [i \in 1..(Len(s) - from + 1) |->
                           Fragment(NoId, Undef, s[i + from - 1])]
  IN {<<Fragment(c.id, c.name, s[1])>> \o later(s, 2) : s \in Splits(c.arguments, MaxPieces)}
     \cup {<<Fragment(c.id, c.name, <<>>)>> \o later(s, 1) :
             s \in Splits(c.arguments, MaxPieces)}
     \cup (IF c.name = "read_file"
             THEN {<<Fragment(c.id, "read_", <<>>), Fragment(NoId, "file", c.arguments)>>}
             ELSE {})

\* one chunk per fragment, call after call
RECURSIVE ToolChunks(_)
ToolChunks(calls) ==
  IF calls = <<>> THEN {<<>>}
  ELSE {[i \in 1..Len(f) |-> Chunk(Undef, <<f[i]>>, Null)] \o rest :
          f \in FragLists(Head(calls)), rest \in ToolChunks(Tail(calls))}

TextChunks(content) ==
  IF content = "hello"
    THEN {<<Chunk("hello", <<>>, Null)>>, <<Chunk("hel", <<>>, Null), Chunk("lo", <<>>, Null)>>}
    ELSE {<<>>}

\* the chunk sequences createStreamingChatCompletion may deliver a turn as
StreamsOf(resp) ==
  LET whole == [i \in 1..Len(resp.toolCalls) |->
                  Fragment(resp.toolCalls[i].id, resp.toolCalls[i].name,
                           resp.toolCalls[i].arguments)]
      finish == IF resp.toolCalls = <<>> THEN "stop" ELSE "tool_calls"
  IN {t \o c \o <<Chunk(Undef, <<>>, finish)>> :
        t \in TextChunks(resp.content), c \in ToolChunks(resp.toolCalls)}
     \cup (IF Len(resp.toolCalls) > 1 THEN {<<Chunk(Undef, whole, finish)>>} ELSE {})

\* toolCallsMap: key k of the Map is held at index k + 1
MapHas(map, idx) == (idx + 1) \in 1..Len(map)

\* the body of `for (const tc of chunk.delta.toolCalls)`
RECURSIVE accumulate(_, _)
accumulate(map, tcs) ==
  IF tcs = <<>> THEN map
  ELSE LET tc == Head(tcs)
           idx == Len(map)
           existing == MapHas(map, idx)
           next ==
             IF ~existing /\ tc.id # NoId
               THEN Append(map, ToolCall(tc.id, OrEmpty(tc.name), tc.arguments))
             ELSE IF existing
               THEN [map EXCEPT ![idx + 1] =
                       ToolCall(@.id,
                                IF Truthy(tc.name) THEN StrCat(@.name, tc.name) ELSE @.name,
                                @.arguments \o tc.arguments)]
             ELSE map
       IN accumulate(next, Tail(tcs))

\* provider.createStreamingChatCompletion(messages, options) is called
StreamOpen ==
  /\ pc = "provider"
  /\ toolsSent' = completionOptionsTools
  /\ stream
  /\ \E resp \in ProviderTurns :
       /\ provider' = ProviderAfter(resp)
       /\ canon' = Append(canon, resp)
       /\ \E cs \in StreamsOf(resp) :
            streaming' = [chunks |-> cs, read |-> <<>>, content |-> "",
                          toolCallsMap |-> <<>>]
  /\ pc' = "streaming"
  /\ providerCalls' = providerCalls + 1
  /\ UNCHANGED <<turns, sse, classified, edit, indexer, jsonOutput, stdout, poll, launch, auth, flags, session, stream, isTTY, state, history, messages, iteration,
                 toolCallCount, tcIndex, lastCheck, promptCount, executed, effects,
                 result>>

\* one turn of `for await (const chunk of stream)`
StreamChunk ==
  /\ pc = "streaming"
  /\ streaming.chunks # <<>>
  /\ LET chunk == Head(streaming.chunks)
     IN streaming' =
          [chunks |-> Tail(streaming.chunks),
           read |-> Append(streaming.read, chunk),
           content |-> IF Truthy(chunk.content)
                         THEN StrCat(streaming.content, chunk.content)
                         ELSE streaming.content,
           toolCallsMap |-> accumulate(streaming.toolCallsMap, chunk.toolCalls)]
  /\ UNCHANGED <<turns, sse, toolsSent, classified, edit, indexer, jsonOutput, poll, launch, auth, flags, session, stream, isTTY, state, provider, history, messages,
                 pc, iteration, toolCallCount, tcIndex, providerCalls, lastCheck,
                 promptCount, executed, effects, result, canon>>
  /\ Writes(IF Truthy(Head(streaming.chunks).content) THEN onToken ELSE <<>>)

\* the stream is exhausted: handleStreaming returns the assistant message
StreamEnd ==
  /\ pc = "streaming"
  /\ streaming.chunks = <<>>
  /\ Respond(assistantMessage(IF Truthy(streaming.content) THEN streaming.content ELSE Null,
                              streaming.toolCallsMap))
  /\ UNCHANGED <<turns, streaming, sse, toolsSent, classified, edit, indexer, jsonOutput, stdout, poll, launch, auth, flags, session, stream, isTTY, state, provider,
                 toolCallCount, providerCalls, lastCheck, promptCount, executed, effects,
                 canon>>

\* the stream throws inside `for await`: handleStreaming and runAgent reject
StreamFail ==
  /\ pc = "streaming"
  /\ pc' = IF session = "chat" THEN "repl" ELSE "failed"
  /\ UNCHANGED <<turns, streaming, sse, toolsSent, classified, edit, indexer, jsonOutput, stdout, poll, launch, auth, flags, session, stream, isTTY, state, provider,
                 history, messages, iteration, toolCallCount, tcIndex, providerCalls,
                 lastCheck, promptCount, executed, effects, result, canon>>

InitStream ==
  /\ session = "run"
  /\ stream \in BOOLEAN
  /\ isTTY \in BOOLEAN
  /\ flags = [allowWrite |-> FALSE, allowShell |-> FALSE]
  /\ state = PermissionManager(flags)
  /\ provider = [mode |-> "reader", left |-> MaxStreamToolTurns, nextId |-> 1, supportsTools |-> TRUE]
  /\ history = <<userMessage("task")>>
  /\ messages = <<systemMessage(SYSTEM_PROMPT)>> \o history
  /\ pc = "provider"
  /\ iteration = 0
  /\ toolCallCount = 0
  /\ tcIndex = 0
  /\ providerCalls = 0
  /\ lastCheck = NoCheck
  /\ promptCount = 0
  /\ executed = <<>>
  /\ effects = {}
  /\ result = NoResult
  /\ canon = <<>>
  /\ turns = 0
  /\ streaming = NoStream
  /\ auth = NoAuth
  /\ launch = NoLaunch
  /\ poll = NoPoll
  /\ stdout = <<>>
  /\ jsonOutput = FALSE
  /\ indexer = NoIndex
  /\ edit = NoEdit
  /\ classified = NoVerdict
  /\ toolsSent = NotCalled
  /\ sse = NoSSE

NextStream ==
  \/ ProviderRespond
  \/ StreamOpen
  \/ StreamChunk
  \/ StreamEnd
  \/ StreamFail
  \/ ProviderFail
  \/ BeginToolCall
  \/ ExecuteTool

SpecStream == InitStream /\ [][NextStream]_vars

\* the tool calls a fragment sequence denotes: a fragment with an id starts
\* a call, a fragment without one continues the latest call
RECURSIVE Reassemble(_, _)
Reassemble(calls, frags) ==
  IF frags = <<>> THEN calls
  ELSE LET f == Head(frags)
           n == Len(calls)
       IN Reassemble(
            IF f.id # NoId
              THEN Append(calls, ToolCall(f.id, OrEmpty(f.name), f.arguments))
            ELSE IF n = 0 THEN calls
            ELSE [calls EXCEPT ![n] = ToolCall(@.id, StrCat(@.name, OrEmpty(f.name)),
                                               @.arguments \o f.arguments)],
            Tail(frags))

FragmentsRead == Concat([i \in 1..Len(streaming.read) |-> streaming.read[i].toolCalls])

\* C8: a tool call streamed in fragments is reassembled in full: the id of
\* its first fragment, its name and its arguments the concatenation of the
\* name and argument fragments in arrival order.
C8_FragmentsReassembled ==
  pc = "streaming" => streaming.toolCallsMap = Reassemble(<<>>, FragmentsRead)

\* what a run returns when every turn is pushed as the provider delivered it
RECURSIVE Replay(_)
Replay(ts) ==
  IF ts = <<>> THEN <<>>
  ELSE <<Head(ts)>>
       \o [i \in 1..Len(Head(ts).toolCalls) |->
             toolResultMessage(Head(ts).toolCalls[i].id, executeTool(Head(ts).toolCalls[i]))]
       \o Replay(Tail(ts))

RECURSIVE CountCalls(_)
CountCalls(ts) == IF ts = <<>> THEN 0 ELSE Len(Head(ts).toolCalls) + CountCalls(Tail(ts))

\* C10: a streamed run returns the messages, the finalContent and the
\* toolCallCount of the non-streamed run over the same assistant turns.
C10_StreamEqualsNonStream ==
  pc = "done" =>
    /\ result.messages = <<systemMessage(SYSTEM_PROMPT), userMessage("task")>> \o Replay(canon)
    /\ result.finalContent = OrEmpty(Last(canon).content)
    /\ result.toolCallCount = CountCalls(canon)

\* --------------------------------------- the SSE parsers of the providers
\* A response body is a sequence of atoms: "\n", "\r", and the pieces of a
\* line ("event: ", an event name, "data: ", a JSON payload, ":", a comment).
Whitespace == {" ", "\r"}

\* line.trim()
RECURSIVE TrimLine(_)
TrimLine(line) ==
  IF line = <<>> THEN line
  ELSE IF Head(line) \in Whitespace THEN TrimLine(Tail(line))
  ELSE IF Last(line) \in Whitespace THEN TrimLine(SubSeq(line, 1, Len(line) - 1))
  ELSE line

\* a thread.message.delta, thread.run.completed or thread.run.failed payload
AgentJSON(content, last_error) ==
  [ok |-> TRUE, delta |-> [content |-> content], last_error |-> last_error]

TextPart(value) == [type |-> "text", text |-> [value |-> value]]

\* Map.has / Map.get / Map.set / Map.delete on a list of entries kept in
\* insertion order
MapIndex(map, key) ==
  IF \E i \in 1..Len(map) : map[i].key = key
    THEN CHOOSE i \in 1..Len(map) : map[i].key = key
    ELSE 0

MapSet(map, key, val) ==
  IF MapIndex(map, key) = 0
    THEN Append(map, [key |-> key, val |-> val])
    ELSE [map EXCEPT ![MapIndex(map, key)] = [key |-> key, val |-> val]]

MapDelete(map, key) ==
  LET i == MapIndex(map, key)
  IN IF i = 0 THEN map ELSE SubSeq(map, 1, i - 1) \o SubSeq(map, i + 1, Len(map))

Pending(id, name, arguments) == [id |-> id, name |-> name, arguments |-> arguments]

\* the JSON of a Chat Completions stream event: choices[0] with its delta
FoundryJSON(content, tool_calls, finish_reason) ==
  [ok |-> TRUE,
   choices |-> <<[delta |-> [content |-> content, tool_calls |-> tool_calls],
                  finish_reason |-> finish_reason]>>]

\* the JSON of an Anthropic stream event
AnthropicJSON(type, index, block, delta) ==
  [ok |-> TRUE, type |-> type, index |-> index, content_block |-> block, delta |-> delta]

NoBlock == [type |-> Undef, id |-> NoId, name |-> Undef]

NoDelta == [type |-> Undef, text |-> Undef, partial_json |-> <<>>, stop_reason |-> Undef]

\* the JSON of a Responses API stream event; arguments absent is NoArguments
NoArguments == <<Undef>>

ResponsesJSON(delta, item, item_id, arguments) ==
  [ok |-> TRUE, delta |-> delta, item |-> item, item_id |-> item_id,
   arguments |-> arguments]

NoItem == [type |-> Undef, id |-> "", call_id |-> NoId, name |-> Undef]

\* JSON.parse of the payloads the mock servers send
SSEJSON(data) ==
  IF Len(data) # 1 THEN [ok |-> FALSE]
  ELSE CASE data[1] = "f-role" -> FoundryJSON(Undef, <<>>, Undef)
         [] data[1] = "f-hel" -> FoundryJSON("hel", <<>>, Undef)
         [] data[1] = "f-lo" -> FoundryJSON("lo", <<>>, Undef)
         [] data[1] = "f-tc" ->
              FoundryJSON(Undef, <<Fragment(1, "read_file", <<>>)>>, Undef)
         [] data[1] = "f-args1" ->
              FoundryJSON(Undef, <<Fragment(NoId, Undef, <<"{", "path">>)>>, Undef)
         [] data[1] = "f-args2" ->
              FoundryJSON(Undef, <<Fragment(NoId, Undef, <<"src/x", "}">>)>>, Undef)
         [] data[1] = "f-finish" -> FoundryJSON(Undef, <<>>, "tool_calls")
         [] data[1] = "f-empty" -> [ok |-> TRUE, choices |-> <<>>]
         [] data[1] = "a-ping" -> AnthropicJSON("ping", 0, NoBlock, NoDelta)
         [] data[1] = "a-hel" ->
              AnthropicJSON("content_block_delta", 0, NoBlock,
                            [NoDelta EXCEPT !.type = "text_delta", !.text = "hel"])
         [] data[1] = "a-lo" ->
              AnthropicJSON("content_block_delta", 0, NoBlock,
                            [NoDelta EXCEPT !.type = "text_delta", !.text = "lo"])
         [] data[1] = "a-tool" ->
              AnthropicJSON("content_block_start", 1,
                            [type |-> "tool_use", id |-> 1, name |-> "read_file"], NoDelta)
         [] data[1] = "a-json1" ->
              AnthropicJSON("content_block_delta", 1, NoBlock,
                            [NoDelta EXCEPT !.type = "input_json_delta",
                                            !.partial_json = <<"{", "path">>])
         [] data[1] = "a-json2" ->
              AnthropicJSON("content_block_delta", 1, NoBlock,
                            [NoDelta EXCEPT !.type = "input_json_delta",
                                            !.partial_json = <<"src/x", "}">>])
         [] data[1] = "b-tool" ->
              AnthropicJSON("content_block_start", 2,
                            [type |-> "tool_use", id |-> 2, name |-> "exec_shell"], NoDelta)
         [] data[1] = "b-json1" ->
              AnthropicJSON("content_block_delta", 2, NoBlock,
                            [NoDelta EXCEPT !.type = "input_json_delta",
                                            !.partial_json = <<"{", "command">>])
         [] data[1] = "b-json2" ->
              AnthropicJSON("content_block_delta", 2, NoBlock,
                            [NoDelta EXCEPT !.type = "input_json_delta",
                                            !.partial_json = <<"ls", "}">>])
         [] data[1] = "c-tool" ->
              AnthropicJSON("content_block_start", 3,
                            [type |-> "tool_use", id |-> 3, name |-> "glob_find"], NoDelta)
         [] data[1] = "a-text" ->
              AnthropicJSON("content_block_start", 0,
                            [type |-> "text", id |-> NoId, name |-> Undef], NoDelta)
         [] data[1] = "a-tool-use" ->
              AnthropicJSON("message_delta", 0, NoBlock,
                            [NoDelta EXCEPT !.stop_reason = "tool_use"])
         [] data[1] = "a-end-turn" ->
              AnthropicJSON("message_delta", 0, NoBlock,
                            [NoDelta EXCEPT !.stop_reason = "end_turn"])
         [] data[1] = "r-hel" -> ResponsesJSON("hel", NoItem, "", NoArguments)
         [] data[1] = "r-lo" -> ResponsesJSON("lo", NoItem, "", NoArguments)
         [] data[1] = "r-item" ->
              ResponsesJSON(Undef, [type |-> "function_call", id |-> "fc_1", call_id |-> 1,
                                    name |-> "read_file"], "", NoArguments)
         [] data[1] = "r-args1" -> ResponsesJSON(<<"{", "path">>, NoItem, "fc_1", NoArguments)
         [] data[1] = "r-args2" -> ResponsesJSON(<<"src/x", "}">>, NoItem, "fc_1", NoArguments)
         [] data[1] = "r-done" ->
              ResponsesJSON(Undef, NoItem, "fc_1", ArgsJSON("path", "src/x"))
         [] data[1] = "r-done-bare" -> ResponsesJSON(Undef, NoItem, "fc_1", NoArguments)
         [] data[1] = "r-item2" ->
              ResponsesJSON(Undef, [type |-> "function_call", id |-> "fc_2", call_id |-> 2,
                                    name |-> "exec_shell"], "", NoArguments)
         [] data[1] = "r-args3" ->
              ResponsesJSON(ArgsJSON("command", "ls"), NoItem, "fc_2", NoArguments)
         [] data[1] = "r-done2" -> ResponsesJSON(Undef, NoItem, "fc_2", NoArguments)
         [] data[1] = "r-completed" -> ResponsesJSON(Undef, NoItem, "", NoArguments)
         [] data[1] = "g-hel" -> AgentJSON(<<TextPart("hel")>>, Undef)
         [] data[1] = "g-lo" -> AgentJSON(<<TextPart("lo")>>, Undef)
         [] data[1] = "g-parts" ->
              AgentJSON(<<[type |-> "image_file", text |-> [value |-> Undef]], TextPart("a"),
                          TextPart(""), TextPart("b")>>, Undef)
         [] data[1] = "g-run" -> AgentJSON(Undef, Undef)
         [] data[1] = "g-failed" -> AgentJSON(Undef, "boom")
         [] OTHER -> [ok |-> FALSE]

Yield(p, chunk) == [p EXCEPT !.out = Append(@, chunk)]

\* azureFoundry.ts parseSSEStream: the body of `for (const line of lines)`
FoundryLine(line, p) ==
  LET trimmed == TrimLine(line)
      data == Tail(trimmed)
      parsed == SSEJSON(data)
      choice == parsed.choices[1]
      toolCalls == [i \in 1..Len(choice.delta.tool_calls) |->
                      LET tc == choice.delta.tool_calls[i]
                      IN Fragment(tc.id, IF Truthy(tc.name) THEN tc.name ELSE Undef,
                                  tc.arguments)]
  IN IF trimmed = <<>> \/ trimmed[1] = ":" THEN p
     ELSE IF trimmed[1] # "data: " THEN p
     ELSE IF data = <<"[DONE]">> THEN [p EXCEPT !.returned = TRUE]
     ELSE IF ~parsed.ok THEN p
     ELSE IF parsed.choices = <<>> THEN p
     ELSE Yield(p, Chunk(choice.delta.content, toolCalls,
                         IF choice.finish_reason = Undef THEN Null
                         ELSE choice.finish_reason))

\* mutant: a fragment goes to the block started last, whatever its index
blockOf_Latest(pending, index) == Len(pending)

\* toolUseBlocks.get(idx): the position of the block of that index, 0 for none
blockOf(pending, index) == MapIndex(pending, index)

\* azureAnthropic.ts parseSSE: the body of `for (const line of lines)`
AnthropicLine(line, p) ==
  LET trimmed == TrimLine(line)
      data == Tail(trimmed)
      parsed == SSEJSON(data)
      started ==
        IF parsed.type = "content_block_start" /\ parsed.content_block.type = "tool_use"
          THEN [p EXCEPT !.pending =
                  MapSet(@, parsed.index,
                         Pending(parsed.content_block.id, parsed.content_block.name, <<>>))]
          ELSE p
      delta ==
        IF parsed.type # "content_block_delta" THEN started
        ELSE IF parsed.delta.type = "text_delta"
          THEN Yield(started, Chunk(OrEmpty(parsed.delta.text), <<>>, Null))
        ELSE IF parsed.delta.type = "input_json_delta"
                  /\ blockOf(p.pending, parsed.index) # 0
          THEN [started EXCEPT !.pending[blockOf(p.pending, parsed.index)].val.arguments =
                                 @ \o parsed.delta.partial_json]
        ELSE started
      toolCalls == [k \in 1..Len(delta.pending) |->
                      Fragment(delta.pending[k].val.id, delta.pending[k].val.name,
                               delta.pending[k].val.arguments)]
  IN IF trimmed = <<>> \/ trimmed[1] # "data: " THEN p
     ELSE IF data = <<"[DONE]">> THEN [p EXCEPT !.returned = TRUE]
     ELSE IF ~parsed.ok THEN p
     ELSE IF parsed.type # "message_delta" THEN delta
     ELSE IF parsed.delta.stop_reason = "tool_use" /\ Len(delta.pending) > 0
       THEN Yield(delta, Chunk(Undef, toolCalls, "tool_calls"))
     ELSE Yield(delta, Chunk(Undef, <<>>, "stop"))

\* azureResponses.ts parseEventStream: the body of `for (const line of lines)`
ResponsesLine(line, p) ==
  LET trimmed == TrimLine(line)
      data == Tail(trimmed)
      parsed == SSEJSON(data)
      item == parsed.item
      i == MapIndex(p.pending, parsed.item_id)
      pending == p.pending[i].val
      finalArgs == IF parsed.arguments = NoArguments THEN pending.arguments
                   ELSE parsed.arguments
      switch ==
        CASE p.currentEvent = "response.output_text.delta" ->
               IF Truthy(parsed.delta) THEN Yield(p, Chunk(parsed.delta, <<>>, Null)) ELSE p
          [] p.currentEvent = "response.output_item.added" ->
               IF item.type = "function_call"
                 THEN [p EXCEPT !.pending =
                         MapSet(@, item.id,
                                Pending(IF item.call_id = NoId THEN item.id ELSE item.call_id,
                                        OrEmpty(item.name), <<>>))]
                 ELSE p
          [] p.currentEvent = "response.function_call_arguments.delta" ->
               IF i # 0
                 THEN [p EXCEPT !.pending[i].val.arguments = @ \o parsed.delta]
                 ELSE p
          [] p.currentEvent = "response.function_call_arguments.done" ->
               IF i # 0
                 THEN [Yield(p, Chunk(Undef, <<Fragment(pending.id, pending.name, finalArgs)>>,
                                      Null))
                         EXCEPT !.pending = MapDelete(@, parsed.item_id)]
                 ELSE p
          [] p.currentEvent = "response.completed" ->
               [Yield(p, Chunk(Undef, <<>>, "stop")) EXCEPT !.returned = TRUE]
          [] OTHER -> p
  IN IF trimmed # <<>> /\ trimmed[1] = "event: "
       THEN [p EXCEPT !.currentEvent = IF Len(data) = 1 THEN data[1] ELSE ""]
     ELSE IF trimmed = <<>> \/ trimmed[1] # "data: " THEN p
     ELSE IF data = <<>> \/ data = <<"[DONE]">> THEN p
     ELSE [(IF parsed.ok THEN switch ELSE p) EXCEPT !.currentEvent = ""]

\* `for (const text of textDeltas) if (text) yield ...`
RECURSIVE YieldTexts(_, _)
YieldTexts(p, textDeltas) ==
  IF textDeltas = <<>> THEN p
  ELSE YieldTexts(IF Truthy(Head(textDeltas))
                    THEN Yield(p, Chunk(Head(textDeltas), <<>>, Null))
                    ELSE p,
                  Tail(textDeltas))

\* parsed.delta?.content?.filter(type = text)?.map(text?.value ?? '') ?? []
textDeltas(parsed) ==
  LET content == IF parsed.delta.content = Undef THEN <<>> ELSE parsed.delta.content
      texts == SelectSeq(content, LAMBDA c : c.type = "text")
  IN [i \in 1..Len(texts) |-> OrEmpty(texts[i].text.value)]

\* mutant: a delta payload that fails to parse ends the stream with an error
AgentDelta_Rethrows(data, p) ==
  IF SSEJSON(data).ok
    THEN YieldTexts(p, textDeltas(SSEJSON(data)))
    ELSE [p EXCEPT !.returned = TRUE, !.thrown = <<"SyntaxError">>]

\* azureAnthropic.ts parseAgentSSE: the branch of thread.message.delta
AgentDelta(data, p) ==
  IF SSEJSON(data).ok THEN YieldTexts(p, textDeltas(SSEJSON(data))) ELSE p

\* azureAnthropic.ts parseAgentSSE: the body of `for (const line of lines)`
AgentLine(line, p) ==
  LET trimmed == TrimLine(line)
      data == Tail(trimmed)
      parsed == SSEJSON(data)
      delta == IF p.currentEvent = "thread.message.delta" THEN AgentDelta(data, p) ELSE p
      completed == IF p.currentEvent = "thread.run.completed"
                     THEN Yield(delta, Chunk(Undef, <<>>, "stop"))
                     ELSE delta
      errMsg == IF parsed.last_error = Undef THEN "Unknown error" ELSE parsed.last_error
  IN IF trimmed # <<>> /\ trimmed[1] = "event: "
       THEN [p EXCEPT !.currentEvent = IF Len(data) = 1 THEN data[1] ELSE ""]
     ELSE IF trimmed = <<>> \/ trimmed[1] # "data: " THEN p
     ELSE IF data = <<"[DONE]">> THEN [p EXCEPT !.returned = TRUE]
     ELSE IF p.currentEvent # "thread.run.failed" THEN completed
     ELSE [completed EXCEPT !.returned = TRUE,
                            !.thrown = IF parsed.ok THEN <<"Agent run failed: ", errMsg>>
                                       ELSE <<"Agent run failed">>]

\* the body of `for (const line of lines)` of the parser of p.kind
parseLine(line, p) ==
  CASE p.kind = "foundry" -> FoundryLine(line, p)
    [] p.kind = "anthropic" -> AnthropicLine(line, p)
    [] p.kind = "agents" -> AgentLine(line, p)
    [] OTHER -> ResponsesLine(line, p)

\* `for (const line of lines)`: a parser that returned or threw reads no
\* further line
RECURSIVE ProcessLines(_, _)
ProcessLines(lines, p) ==
  IF lines = <<>> \/ p.returned THEN p
  ELSE ProcessLines(Tail(lines), parseLine(Head(lines), p))

\* one turn of `while (true)`: reader.read() resolves with `value`; the
\* Responses parser declares currentEvent inside the loop body
parseRead(s, value) ==
  LET pieces == SplitOn(s.buffer \o value, {"\n"})
      lines == SubSeq(pieces, 1, Len(pieces) - 1)
      p == ProcessLines(lines, IF s.kind = "responses" THEN [s EXCEPT !.currentEvent = ""]
                               ELSE s)
  IN [p EXCEPT !.buffer = Last(pieces), !.pos = s.pos + Len(value)]

\* the bodies the mock servers send
DataLines(payload) == <<"data: ", payload, "\n", "\n">>

DataLinesCR(payload) == <<"data: ", payload, "\r", "\n", "\r", "\n">>

EventLines(name, payload) == <<"event: ", name, "\n", "data: ", payload, "\n", "\n">>

FoundryWires ==
  {Concat(<<DataLines("f-role"), DataLines("f-hel"), DataLines("f-lo"), DataLines("f-tc"),
            DataLines("f-args1"), DataLines("f-args2"), DataLines("f-finish"),
            DataLines("[DONE]")>>),
   Concat(<<<<":", "ping", "\r", "\n">>, DataLinesCR("f-hel"), DataLinesCR("f-bad"),
            DataLinesCR("f-empty"), <<"data: ", "f-lo">>>>)}

AnthropicWires ==
  {Concat(<<EventLines("content_block_delta", "a-hel"),
            EventLines("content_block_start", "a-tool"),
            EventLines("content_block_delta", "a-json1"),
            EventLines("content_block_delta", "a-json2"),
            EventLines("message_delta", "a-tool-use")>>),
   Concat(<<EventLines("ping", "a-ping"), EventLines("content_block_delta", "a-hel"),
            EventLines("content_block_delta", "a-bad"),
            EventLines("content_block_delta", "a-lo"),
            EventLines("message_delta", "a-end-turn")>>),
   Concat(<<EventLines("content_block_start", "a-text"),
            EventLines("content_block_delta", "a-hel"),
            EventLines("content_block_start", "a-tool"),
            EventLines("content_block_start", "b-tool"),
            EventLines("content_block_delta", "a-json1"),
            EventLines("content_block_delta", "b-json1"),
            EventLines("content_block_delta", "b-json2"),
            EventLines("content_block_delta", "a-json2"),
            EventLines("content_block_start", "c-tool"),
            EventLines("message_delta", "a-tool-use")>>),
   Concat(<<EventLines("content_block_start", "a-text"),
            EventLines("content_block_delta", "a-hel"),
            EventLines("message_delta", "a-tool-use")>>)}

ResponsesWires ==
  {Concat(<<EventLines("response.output_text.delta", "r-hel"),
            EventLines("response.output_item.added", "r-item"),
            EventLines("response.function_call_arguments.delta", "r-args1"),
            EventLines("response.function_call_arguments.delta", "r-args2"),
            EventLines("response.function_call_arguments.done", "r-done-bare"),
            EventLines("response.completed", "r-completed")>>),
   Concat(<<EventLines("response.output_item.added", "r-item"),
            EventLines("response.function_call_arguments.done", "r-done"),
            EventLines("response.output_text.delta", "r-bad"),
            EventLines("response.output_text.delta", "r-lo"),
            EventLines("response.completed", "r-bad"),
            EventLines("response.completed", "r-completed")>>),
   Concat(<<EventLines("response.output_item.added", "r-item"),
            EventLines("response.output_item.added", "r-item2"),
            EventLines("response.function_call_arguments.delta", "r-args1"),
            EventLines("response.function_call_arguments.delta", "r-args3"),
            EventLines("response.function_call_arguments.done", "r-done2"),
            EventLines("response.function_call_arguments.done", "r-done"),
            EventLines("response.function_call_arguments.done", "r-done2"),
            EventLines("response.completed", "r-completed")>>)}

\* an Anthropic message: content is a string (text) or, when array is TRUE,
\* a list of content blocks
AnthropicMessage(role, array, text, blocks) ==
  [role |-> role, array |-> array, text |-> text, blocks |-> blocks]

\* mutant: every tool result opens a user message of its own
mergeToolResult_Apart(anthropicMessages, block) ==
  Append(anthropicMessages, AnthropicMessage("user", TRUE, Undef, <<block>>))

\* convertMessages, the tool branch: the block joins the last message when
\* that is a user message with a list of blocks
mergeToolResult(anthropicMessages, block) ==
  LET n == Len(anthropicMessages)
  IN IF n > 0 /\ anthropicMessages[n].role = "user" /\ anthropicMessages[n].array
       THEN [anthropicMessages EXCEPT ![n].blocks = Append(@, block)]
       ELSE Append(anthropicMessages, AnthropicMessage("user", TRUE, Undef, <<block>>))

\* azureAnthropic.ts convertMessages; systemPrompt is the list of the system
\* contents that the code joins with newlines, empty when there is none
RECURSIVE convertFrom(_, _, _)
convertFrom(msgs, systemPrompt, anthropicMessages) ==
  IF msgs = <<>>
    THEN [systemPrompt |-> systemPrompt, anthropicMessages |-> anthropicMessages]
  ELSE
    LET msg == Head(msgs)
        toolUses == [k \in 1..Len(msg.toolCalls) |->
                       [type |-> "tool_use", id |-> msg.toolCalls[k].id,
                        name |-> msg.toolCalls[k].name,
                        input |-> JSONparse(msg.toolCalls[k].arguments).obj]]
        texts == IF Truthy(msg.content) THEN <<[type |-> "text", text |-> msg.content]>>
                 ELSE <<>>
    IN CASE msg.role = "system" ->
              convertFrom(Tail(msgs), Append(systemPrompt, OrEmpty(msg.content)),
                          anthropicMessages)
         [] msg.role = "assistant" ->
              convertFrom(Tail(msgs), systemPrompt,
                          Append(anthropicMessages,
                                 IF msg.toolCalls # <<>>
                                   THEN AnthropicMessage("assistant", TRUE, Undef,
                                                         texts \o toolUses)
                                   ELSE AnthropicMessage("assistant", FALSE,
                                                         OrEmpty(msg.content), <<>>)))
         [] msg.role = "tool" ->
              convertFrom(Tail(msgs), systemPrompt,
                          mergeToolResult(anthropicMessages,
                                          [type |-> "tool_result",
                                           tool_use_id |-> msg.toolCallId,
                                           content |-> OrEmpty(msg.content)]))
         [] OTHER ->
              convertFrom(Tail(msgs), systemPrompt,
                          Append(anthropicMessages,
                                 AnthropicMessage("user", FALSE, OrEmpty(msg.content),
                                                  <<>>)))

convertMessages(msgs) == convertFrom(msgs, <<>>, <<>>)

\* azureResponses.ts toResponsesInput: the input items of the messages
toResponsesInput(msgs) ==
  LET items(msg) ==
        CASE msg.role = "system" -> <<>>
          [] msg.role = "tool" ->
               <<[type |-> "function_call_output", call_id |-> msg.toolCallId,
                  output |-> OrEmpty(msg.content)]>>
          [] msg.role = "assistant" /\ msg.toolCalls # <<>> ->
               [k \in 1..Len(msg.toolCalls) |->
                  [type |-> "function_call", role |-> "assistant",
                   content |-> [id |-> msg.toolCalls[k].id, call_id |-> msg.toolCalls[k].id,
                                name |-> msg.toolCalls[k].name,
                                arguments |-> msg.toolCalls[k].arguments]]]
               \o (IF Truthy(msg.content)
                      THEN <<[role |-> "assistant", content |-> msg.content]>>
                      ELSE <<>>)
          [] OTHER -> <<[role |-> msg.role, content |-> OrEmpty(msg.content)]>>
      systems == SelectSeq(msgs, LAMBDA msg : msg.role = "system")
  IN [instructions |-> IF systems = <<>> THEN Undef
                       ELSE IF systems[Len(systems)].content = Null THEN Undef
                       ELSE systems[Len(systems)].content,
      input |-> Concat([k \in 1..Len(msgs) |-> items(msgs[k])])]

\* the function_call item of a response body; call_id may be absent
FunctionCallItem(id, call_id, name, arguments) ==
  [type |-> "function_call", id |-> id, call_id |-> call_id, name |-> name,
   arguments |-> arguments, content |-> <<>>]

\* the bodies the mock server answers a non-streaming request with
ResponsesBodies ==
  {[status |-> "completed",
    output |-> <<[type |-> "reasoning", id |-> "rs_1", call_id |-> NoId, name |-> Undef,
                  arguments |-> NoArguments, content |-> <<>>],
                 FunctionCallItem("fc_1", 1, "read_file", ArgsJSON("path", "src/x")),
                 [type |-> "message", id |-> "msg_1", call_id |-> NoId, name |-> Undef,
                  arguments |-> NoArguments,
                  content |-> <<[type |-> "output_text", text |-> "hel"]>>],
                 FunctionCallItem("fc_2", 2, "exec_shell", NoArguments)>>],
   [status |-> "completed",
    output |-> <<[type |-> "message", id |-> "msg_1", call_id |-> NoId, name |-> Undef,
                  arguments |-> NoArguments,
                  content |-> <<[type |-> "output_text", text |-> "hel"]>>]>>]}

\* azureResponses.ts parseResponse: the result of a non-streaming response
parseResponse(json) ==
  LET calls == SelectSeq(json.output, LAMBDA item : item.type = "function_call")
      texts == SelectSeq(Concat([k \in 1..Len(json.output) |->
                                   IF json.output[k].type = "message"
                                     THEN json.output[k].content ELSE <<>>]),
                         LAMBDA part : part.type = "output_text" /\ Truthy(part.text))
      \* textContent += part.text; the bodies carry one text part at most
      textContent == IF texts = <<>> THEN "" ELSE texts[1].text
  IN [message |->
        assistantMessage(IF textContent = "" THEN Null ELSE textContent,
                         [k \in 1..Len(calls) |->
                            ToolCall(IF calls[k].call_id # NoId THEN calls[k].call_id
                                     ELSE calls[k].id,
                                     OrEmpty(calls[k].name),
                                     IF calls[k].arguments = NoArguments THEN <<"{", "}">>
                                     ELSE calls[k].arguments)]),
      finishReason |-> IF json.status = "completed" THEN "stop" ELSE OrEmpty(json.status)]

AgentWires ==
  {Concat(<<EventLines("thread.message.delta", "g-hel"),
            EventLines("thread.message.delta", "g-bad"),
            EventLines("thread.message.delta", "g-lo"),
            EventLines("thread.run.completed", "g-run"), EventLines("done", "[DONE]")>>),
   Concat(<<EventLines("thread.message.delta", "g-parts"),
            EventLines("thread.run.completed", "g-bad"),
            EventLines("thread.message.delta", "g-lo")>>),
   Concat(<<EventLines("thread.message.delta", "g-hel"),
            EventLines("thread.run.failed", "g-bad"),
            EventLines("thread.message.delta", "g-lo")>>),
   Concat(<<EventLines("thread.message.delta", "g-hel"),
            EventLines("thread.run.failed", "g-failed"),
            EventLines("thread.message.delta", "g-lo")>>)}

SSEStart(kind, wire) == [NoSSE EXCEPT !.kind = kind, !.wire = wire]

\* reader.read() resolves with the next bytes of the body, however many
SSERead ==
  /\ pc = "sse"
  /\ ~sse.returned
  /\ sse.pos < Len(sse.wire)
  /\ \E n \in 1..(Len(sse.wire) - sse.pos) :
       sse' = parseRead(sse, SubSeq(sse.wire, sse.pos + 1, sse.pos + n))
  /\ UNCHANGED <<turns, streaming, toolsSent, classified, edit, indexer, jsonOutput, stdout, poll, launch, auth, flags, session, stream, isTTY, state, provider, history,
                 messages, pc, iteration, toolCallCount, tcIndex, providerCalls,
                 lastCheck, promptCount, executed, effects, result, canon>>

\* the generator returned, or reader.read() resolves with done
SSEEnd ==
  /\ pc = "sse"
  /\ sse.returned \/ sse.pos = Len(sse.wire)
  /\ pc' = "done"
  /\ UNCHANGED <<turns, streaming, sse, toolsSent, classified, edit, indexer, jsonOutput, stdout, poll, launch, auth, flags, session, stream, isTTY, state, provider, history,
                 messages, iteration, toolCallCount, tcIndex, providerCalls, lastCheck,
                 promptCount, executed, effects, result, canon>>

InitSSE ==
  /\ sse \in {SSEStart("foundry", w) : w \in FoundryWires}
             \cup {SSEStart("anthropic", w) : w \in AnthropicWires}
             \cup {SSEStart("responses", w) : w \in ResponsesWires}
             \cup {SSEStart("agents", w) : w \in AgentWires}
  /\ pc = "sse"
  /\ session = "run"
  /\ stream = TRUE
  /\ isTTY = TRUE
  /\ flags = [allowWrite |-> FALSE, allowShell |-> FALSE]
  /\ state = PermissionManager(flags)
  /\ provider = [mode |-> "reader", left |-> 0, nextId |-> 1, supportsTools |-> TRUE]
  /\ history = <<userMessage("task")>>
  /\ messages = <<systemMessage(SYSTEM_PROMPT)>> \o history
  /\ iteration = 0
  /\ toolCallCount = 0
  /\ tcIndex = 0
  /\ providerCalls = 1
  /\ lastCheck = NoCheck
  /\ promptCount = 0
  /\ executed = <<>>
  /\ effects = {}
  /\ result = NoResult
  /\ canon = <<>>
  /\ turns = 0
  /\ streaming = NoStream
  /\ auth = NoAuth
  /\ launch = NoLaunch
  /\ poll = NoPoll
  /\ stdout = <<>>
  /\ jsonOutput = FALSE
  /\ indexer = NoIndex
  /\ edit = NoEdit
  /\ classified = NoVerdict
  /\ toolsSent = NotCalled

NextSSE ==
  \/ SSERead
  \/ SSEEnd

SpecSSE == InitSSE /\ [][NextSSE]_vars

\* the chunks a parser yields when the whole body arrives in one read
OneRead == parseRead(SSEStart(sse.kind, sse.wire), sse.wire).out

\* C9: the chunks an SSE parser yields depend on the bytes of the body only,
\* not on how the reads split them, a split inside a line or between an
\* `event:` line and its `data:` line included.
C9_SplitIndependent == (pc = "done" /\ sse.kind # "none") => sse.out = OneRead

\* ----------------------------- a REPL session with gated tool calls
\* tool-call turns the mock provider emits in one such session
MaxSessionToolTurns == 1

InitSession ==
  /\ session = "chat"
  /\ stream = FALSE
  /\ isTTY = TRUE
  /\ flags \in [allowWrite : BOOLEAN, allowShell : BOOLEAN]
  /\ state = PermissionManager(flags)
  /\ provider = [mode |-> "menu", left |-> MaxSessionToolTurns, nextId |-> 1, supportsTools |-> TRUE]
  /\ history = <<>>
  /\ messages = <<>>
  /\ pc = "repl"
  /\ iteration = 0
  /\ toolCallCount = 0
  /\ tcIndex = 0
  /\ providerCalls = 0
  /\ lastCheck = NoCheck
  /\ promptCount = 0
  /\ executed = <<>>
  /\ effects = {}
  /\ result = NoResult
  /\ canon = <<>>
  /\ turns = 0
  /\ streaming = NoStream
  /\ auth = NoAuth
  /\ launch = NoLaunch
  /\ poll = NoPoll
  /\ stdout = <<>>
  /\ jsonOutput = FALSE
  /\ indexer = NoIndex
  /\ edit = NoEdit
  /\ classified = NoVerdict
  /\ toolsSent = NotCalled
  /\ sse = NoSSE

NextSession ==
  \/ UserTurn
  \/ Clear
  \/ Compact
  \/ ProviderRespond
  \/ ProviderFail
  \/ BeginToolCall
  \/ AnswerPrompt
  \/ ExecuteTool

SpecSession == InitSession /\ [][NextSession]_vars

\* C11: the permission state starts at the values of the CLI flags, and no
\* step of a session (a check, a prompt answer, a denial, a turn, a slash
\* command) takes alwaysWrite or alwaysShell from true back to false.
C11_FlagsMonotone ==
  /\ state.alwaysWrite = flags.allowWrite
  /\ state.alwaysShell = flags.allowShell
  /\ [][/\ state.alwaysWrite => state'.alwaysWrite
        /\ state.alwaysShell => state'.alwaysShell]_vars

\* a flag set by an "always" answer is still set after a later denial, a
\* second user turn and a /clear
C11_Witness ==
  /\ state.alwaysWrite
  /\ ~flags.allowWrite
  /\ lastCheck.result = "deny"
  /\ turns = 2
  /\ pc = "repl"
  /\ history = <<>>

AlwaysAnswers == {<<"a">>, <<"a", "l", "w", "a", "y", "s">>}

\* the latest check prompted for a non-destructive call of `tool` and was
\* answered a or always
AlwaysAnswered(tool) ==
  /\ lastCheck.tool = tool
  /\ lastCheck.outcome = "prompt"
  /\ lastCheck.level # "destructive"
  /\ ToLowerCase(Trim(lastCheck.answer)) \in AlwaysAnswers

\* the latest check is one the always-flag of `tool` covers: it returned
\* true and issued no prompt
PreApproved(tool, levels) ==
  (lastCheck.tool = tool /\ LevelOf(lastCheck.tool, lastCheck.args) \in levels
     /\ ~AlwaysAnswered(tool)) =>
    /\ lastCheck.outcome = "allow"
    /\ lastCheck.result = "allow"
    /\ lastCheck.answer = NoAnswer

\* C12: once a non-destructive exec_shell (write_file) prompt is answered a
\* or always, that check returns true, and every later check of the session
\* for a safe or mutating command (a mutating path) returns true without a
\* prompt.
C12_AlwaysSticks ==
  /\ [](AlwaysAnswered("exec_shell") =>
          (lastCheck.result = "allow" /\ []PreApproved("exec_shell", {"safe", "mutating"})))
  /\ [](AlwaysAnswered("write_file") =>
          (lastCheck.result = "allow" /\ []PreApproved("write_file", {"mutating"})))

\* a mutating command runs unprompted on a flag that an answer, not the
\* command line, has set
C12_Witness ==
  /\ lastCheck.tool = "exec_shell"
  /\ LevelOf(lastCheck.tool, lastCheck.args) = "mutating"
  /\ lastCheck.pre.alwaysShell
  /\ ~flags.allowShell
  /\ lastCheck.outcome = "allow"
  /\ pc = "exec"

\* the answer without the white space around it, in lower case
Normalised(answer) ==
  LET inked == {i \in 1..Len(answer) : ~IsSpace(answer[i])}
      first == CHOOSE i \in inked : \A j \in inked : i <= j
      last == CHOOSE i \in inked : \A j \in inked : i >= j
  IN IF inked = {} THEN <<>>
     ELSE [i \in 1..(last - first + 1) |-> ToLowerChar(answer[first + i - 1])]

\* C13: an answered prompt decides its check by the trimmed, lower-cased
\* answer: empty, y, yes allow and leave both flags alone; a, always at a
\* non-destructive prompt allow and set the flag of the prompted tool only;
\* every other answer denies and leaves both flags alone.
C13_AnswerDecides ==
  (lastCheck.outcome = "prompt" /\ lastCheck.answer # NoAnswer) =>
    LET n == Normalised(lastCheck.answer)
    IN IF n \in YesAnswers
         THEN lastCheck.result = "allow" /\ state = lastCheck.pre
       ELSE IF n \in AlwaysAnswers /\ LevelOf(lastCheck.tool, lastCheck.args) # "destructive"
         THEN /\ lastCheck.result = "allow"
              /\ lastCheck.tool = "write_file" =>
                   state = [lastCheck.pre EXCEPT !.alwaysWrite = TRUE]
              /\ lastCheck.tool = "exec_shell" =>
                   state = [lastCheck.pre EXCEPT !.alwaysShell = TRUE]
       ELSE lastCheck.result = "deny" /\ state = lastCheck.pre

\* " Y" typed at a write prompt: allowed once, the flags as they were
C13_Witness ==
  /\ lastCheck.tool = "write_file"
  /\ lastCheck.answer = <<" ", "Y">>
  /\ lastCheck.result = "allow"
  /\ ~state.alwaysWrite
  /\ pc = "exec"

\* a check of a safe or mutating command, or of a mutating write path
Ordinary(c) ==
  \/ c.tool = "exec_shell" /\ LevelOf(c.tool, c.args) \in {"safe", "mutating"}
  \/ c.tool = "write_file" /\ LevelOf(c.tool, c.args) = "mutating"

FlagOf(c) == IF c.tool = "write_file" THEN c.pre.alwaysWrite ELSE c.pre.alwaysShell

C14_Decided ==
  Ordinary(lastCheck) =>
    IF FlagOf(lastCheck)
      THEN /\ lastCheck.outcome = "allow"
           /\ lastCheck.result = "allow"
           /\ lastCheck.answer = NoAnswer
    ELSE IF ~lastCheck.tty
      THEN /\ lastCheck.outcome = "deny"
           /\ lastCheck.result = "deny"
           /\ lastCheck.answer = NoAnswer
    ELSE /\ lastCheck.outcome = "prompt"
         /\ lastCheck.answer = NoAnswer => (lastCheck.result = "pending" /\ pc = "prompt")
         /\ lastCheck.answer # NoAnswer =>
              (lastCheck.result = "allow"
                 <=> Normalised(lastCheck.answer) \in YesAnswers \cup AlwaysAnswers)

C14_Prompted ==
  Ordinary(lastCheck') =>
    IF lastCheck'.id # lastCheck.id
      THEN promptCount' = promptCount
                            + (IF ~FlagOf(lastCheck') /\ lastCheck'.tty THEN 1 ELSE 0)
      ELSE promptCount' = promptCount

\* C14: a check of a safe or mutating command or of a mutating write path
\* returns true without a prompt when the matching always-flag is set;
\* with the flag unset it returns false without a prompt off a terminal,
\* and on a terminal issues exactly one prompt whose answer decides it.
C14_OrdinaryCheck == []C14_Decided /\ [][C14_Prompted]_vars

\* `ls` is prompted for on a terminal without --allow-shell, and refused
C14_Witness ==
  /\ lastCheck.tool = "exec_shell"
  /\ LevelOf(lastCheck.tool, lastCheck.args) = "safe"
  /\ ~lastCheck.pre.alwaysShell
  /\ lastCheck.tty
  /\ lastCheck.answer = <<"n">>
  /\ lastCheck.result = "deny"

\* the texts runAgent renders the errors thrown by executeTool as
ErrorTexts ==
  {"Error: Unknown tool", "Error: Failed to parse arguments", "Error: Failed to read file",
   "Error: Failed to write file", "Error: Shell command failed"}

\* C15: when the execution of a tool call throws, that step appends exactly
\* one tool message with the call's id and the error text, the run does not
\* reject, and the loop goes on to the next tool call of the message or,
\* after the last one, to the next provider call; a run rejects only at a
\* provider call.
C15_ToolErrorsBecomeResults ==
  [][/\ (executed' # executed /\ executeTool(Last(executed')) \in ErrorTexts) =>
          /\ messages' = Append(messages, toolResultMessage(Last(executed').id,
                                                            executeTool(Last(executed'))))
          /\ Cardinality(ToolMessagesFor(messages', Last(executed').id)) = 1
          /\ IF tcIndex < Len(CurrentCalls)
               THEN pc' = "tool" /\ tcIndex' = tcIndex + 1
               ELSE IF iteration + 1 < DEFAULT_MAX_ITERATIONS
                 THEN pc' = "provider"
                 ELSE pc' \in {"done", "repl"}
     /\ (pc' = "failed" /\ pc # "failed") => pc = "provider"
  ]_vars

\* a call whose arguments do not parse was approved, its error is in the
\* conversation, the next call of the message was handled and the provider
\* has answered again
C15_Witness ==
  \E i \in 1..Len(messages) :
    /\ messages[i].role = "tool"
    /\ messages[i].content = "Error: Failed to parse arguments"
    /\ messages[i].toolCallId \in ExecutedIds
    /\ i + 2 <= Len(messages)
    /\ messages[i+1].role = "tool"
    /\ messages[i+2].role = "assistant"

\* runAgent rejected in this step: nothing was appended, asked or executed
Rejects ==
  /\ pc' = "failed"
  /\ UNCHANGED <<messages, lastCheck, promptCount, executed, effects, result, toolCallCount>>

\* C16: a provider call that fails, streamed or not, makes runAgent reject
\* in that step, and a rejected run makes no further provider call,
\* permission request or tool execution.
C16_ProviderFailureEndsRun ==
  [][/\ (pc = "provider" /\ providerCalls' = providerCalls + 1 /\ canon' = canon) => Rejects
     /\ (pc = "streaming" /\ pc' # "streaming" /\ messages' = messages) => Rejects
     /\ pc = "failed" =>
          UNCHANGED <<pc, providerCalls, messages, lastCheck, promptCount, executed, effects>>
  ]_vars

\* the second provider call of a streamed run failed in mid-stream, after a
\* tool call of the first turn was executed
C16_Witness ==
  /\ pc = "failed"
  /\ stream
  /\ providerCalls = 2
  /\ Len(executed) >= 1
  /\ streaming.read # <<>>
  /\ streaming.chunks # <<>>

\* the first assistant message of the run is pushed in this step and has no
\* tool calls
FirstTurnIsText ==
  /\ Len(messages') = Len(messages) + 1
  /\ Last(messages').role = "assistant"
  /\ Last(messages').toolCalls = <<>>
  /\ Len(canon') = 1

\* C17: when the first assistant message of a run has no tool calls,
\* runAgent returns in that step after its one provider call, with
\* finalContent the text of that message, toolCallCount 0 and messages the
\* system message, the input history and that assistant message.
C17_TextTurnReturns ==
  [][FirstTurnIsText =>
       /\ providerCalls' = 1
       /\ pc' \in {"done", "repl"}
       /\ result'.finalContent = Last(messages').content
       /\ result'.toolCallCount = 0
       /\ result'.messages =
            <<systemMessage(SYSTEM_PROMPT)>> \o history \o <<Last(messages')>>
  ]_vars

\* the second user turn of a session is answered with text at once: the
\* input history holds the first turn
C17_Witness ==
  /\ pc = "repl"
  /\ turns = 2
  /\ providerCalls = 1
  /\ result.toolCallCount = 0
  /\ result.finalContent = "hello"
  /\ Len(result.messages) > 3
  /\ Len(canon) = 1

\* C18: every provider call to a tool-capable provider is handed the six
\* tool definitions, whatever the flags, the always-state and the denials
\* so far.
C18_AllToolsSent ==
  (providerCalls > 0 /\ provider.supportsTools) =>
    /\ Len(toolsSent) = 6
    /\ {toolsSent[i] : i \in 1..Len(toolsSent)} =
         {"read_file", "write_file", "edit_file", "exec_shell", "grep_search", "glob_find"}

\* a second provider call, made after a denial with neither flag set
C18_Witness ==
  /\ providerCalls = 2
  /\ ~state.alwaysWrite
  /\ ~state.alwaysShell
  /\ \E i \in 1..Len(messages) :
       messages[i].role = "tool" /\ BeginsPermissionDenied(messages[i].content)
  /\ Len(toolsSent) = 6

\* the index of the latest assistant message of the conversation
LastAssistant ==
  CHOOSE i \in 1..Len(messages) :
    messages[i].role = "assistant"
    /\ \A j \in (i+1)..Len(messages) : messages[j].role # "assistant"

\* while the tool calls of an assistant message are handled, the calls
\* before the current one have their tool messages, in order, and no later
\* call has one; a provider call finds every call answered
C19_OneAtATime ==
  /\ pc \in {"tool", "prompt", "exec"} =>
       /\ tcIndex \in 1..Len(CurrentCalls)
       /\ Len(messages) = LastAssistant + tcIndex - 1
       /\ \A k \in 1..(tcIndex - 1) :
            /\ messages[LastAssistant + k].role = "tool"
            /\ messages[LastAssistant + k].toolCallId = CurrentCalls[k].id
       /\ pc = "prompt" => (lastCheck.id = CurrentCalls[tcIndex].id
                              /\ lastCheck.result = "pending")
  /\ pc \in {"provider", "streaming", "done", "repl"} => WellPaired(messages)

\* a permission request and an execution are those of the current call
C19_InOrder ==
  /\ lastCheck'.id # lastCheck.id =>
       (pc = "tool" /\ lastCheck'.id = CurrentCalls[tcIndex].id)
  /\ executed' # executed =>
       (pc = "exec" /\ executed' = Append(executed, CurrentCalls[tcIndex]))
  /\ providerCalls' > providerCalls => pc = "provider"

\* C19: the tool calls of an assistant message are handled one at a time in
\* emission order: the permission request and the execution of call i+1
\* start only when call i has its tool message, and the next provider call
\* only when every call of the message has one.
C19_Sequential == []C19_OneAtATime /\ [][C19_InOrder]_vars

\* the prompt of the second call of a message is open, the first call was
\* executed and has its tool message
C19_Witness ==
  /\ pc = "prompt"
  /\ tcIndex = 2
  /\ Last(messages).role = "tool"
  /\ Last(messages).toolCallId = CurrentCalls[1].id
  /\ CurrentCalls[1].id \in ExecutedIds

\* ------------------------------------- the safety classifier on its own
\* segments of one command line, at most
MaxSegments == 2

\* the commands a line is made of
Segments ==
  {<<"ls">>, <<"cat", "f">>, <<"npm", "i">>, <<"rm", "x">>, <<"rm", "-rf", ".">>,
   <<"rm", "-rf", "/">>, <<"curl", "u">>, <<"sh">>, <<"mkfs">>, <<"rm", "-rf", "~">>}

Separators == {"|", "&&", ";"}

\* the lines of exactly n segments joined by |, && or ;
RECURSIVE LinesOf(_)
LinesOf(n) ==
  IF n = 1 THEN Segments
  ELSE {l \o <<sep>> \o seg : l \in LinesOf(n - 1), sep \in Separators, seg \in Segments}

CommandLines == UNION {LinesOf(n) : n \in 1..MaxSegments}

\* analyseCommand is called on a command line
AnalyseCommand ==
  /\ pc = "classify"
  /\ classified = NoVerdict
  /\ \E line \in CommandLines :
       classified' = [kind |-> "command", input |-> line,
                      verdict |-> analyseCommandToks(line)]
  /\ UNCHANGED <<turns, streaming, sse, toolsSent, edit, indexer, jsonOutput, stdout, poll, launch, auth, flags, session, stream, isTTY, state,
                 provider, history, messages, pc, iteration, toolCallCount, tcIndex,
                 providerCalls, lastCheck, promptCount, executed, effects, result, canon>>

\* names of one write path, at most
MaxPathNames == 2

\* the file and directory names a write path is made of
PathNames == {"etc", "src", "x", ".bashrc", ".env", ".ssh"}

\* the relative paths of exactly n names joined by "/"
RECURSIVE NamesOf(_)
NamesOf(n) ==
  IF n = 1 THEN {<<name>> : name \in PathNames}
  ELSE {q \o <<"/", name>> : q \in NamesOf(n - 1), name \in PathNames}

\* a path is relative, rooted at "/", written with "~", or written with
\* the home directory spelled out
PathPrefixes == {<<>>, <<"/">>, <<"~", "/">>, HOME \o <<"/">>}

WritePaths ==
  {pre \o q : pre \in PathPrefixes, q \in UNION {NamesOf(n) : n \in 1..MaxPathNames}}

\* analyseWritePath is called on a path
AnalyseWritePath ==
  /\ pc = "classify"
  /\ classified = NoVerdict
  /\ \E filePath \in WritePaths :
       classified' = [kind |-> "path", input |-> filePath,
                      verdict |-> analyseWritePathToks(filePath)]
  /\ UNCHANGED <<turns, streaming, sse, toolsSent, edit, indexer, jsonOutput, stdout, poll, launch, auth, flags, session, stream, isTTY, state,
                 provider, history, messages, pc, iteration, toolCallCount, tcIndex,
                 providerCalls, lastCheck, promptCount, executed, effects, result, canon>>

InitClassify ==
  /\ pc = "classify"
  /\ classified = NoVerdict
  /\ session = "run"
  /\ stream = FALSE
  /\ isTTY = TRUE
  /\ flags = [allowWrite |-> FALSE, allowShell |-> FALSE]
  /\ state = PermissionManager(flags)
  /\ provider = [mode |-> "menu", left |-> 0, nextId |-> 1, supportsTools |-> TRUE]
  /\ history = <<>>
  /\ messages = <<>>
  /\ iteration = 0
  /\ toolCallCount = 0
  /\ tcIndex = 0
  /\ providerCalls = 0
  /\ lastCheck = NoCheck
  /\ promptCount = 0
  /\ executed = <<>>
  /\ effects = {}
  /\ result = NoResult
  /\ canon = <<>>
  /\ turns = 0
  /\ streaming = NoStream
  /\ auth = NoAuth
  /\ launch = NoLaunch
  /\ poll = NoPoll
  /\ stdout = <<>>
  /\ jsonOutput = FALSE
  /\ indexer = NoIndex
  /\ edit = NoEdit
  /\ toolsSent = NotCalled
  /\ sse = NoSSE

NextClassify ==
  \/ AnalyseCommand
  \/ AnalyseWritePath

SpecClassify == InitClassify /\ [][NextClassify]_vars

\* safe < mutating < destructive < blocked
Rank(level) ==
  CASE level = "safe" -> 0 [] level = "mutating" -> 1 [] level = "destructive" -> 2
    [] OTHER -> 3

\* the tiers of the segments of a line, each analysed on its own
SegmentTiers(line) ==
  LET segs == SplitOn(line, Separators)
  IN {analyseCommandToks(segs[i]).level : i \in 1..Len(segs)}

\* C20: the tier of a command line is the worst tier among its segments
\* analysed on their own, under safe < mutating < destructive < blocked.
C20_WorstSegment ==
  classified.kind = "command" =>
    /\ classified.verdict.level \in SegmentTiers(classified.input)
    /\ \A tier \in SegmentTiers(classified.input) :
         Rank(tier) <= Rank(classified.verdict.level)

\* the tool call being handled has an arguments string that is not JSON
MalformedCall ==
  /\ pc \in {"tool", "prompt", "exec"}
  /\ ~JSONparse(CurrentCalls[tcIndex].arguments).ok

\* the step ends the handling of the current tool call
CallEnds == ~(pc' \in {"prompt", "exec"})

\* the step appends one tool message with the id of the current call, and
\* returns its text
Appended ==
  IF /\ Len(messages') = Len(messages) + 1
     /\ SubSeq(messages', 1, Len(messages)) = messages
     /\ Last(messages').role = "tool"
     /\ Last(messages').toolCallId = CurrentCalls[tcIndex].id
    THEN Last(messages').content
    ELSE Undef

\* C23 as stated: a tool call whose arguments are not valid JSON never fails
\* the run and never causes a write, an edit or a shell execution, the
\* permission check sees the empty object, and the call ends as a tool
\* message carrying a tool error.
C23_MalformedIsToolError ==
  [][MalformedCall =>
       /\ pc' # "failed"
       /\ effects' = effects
       /\ (lastCheck' # lastCheck /\ pc = "tool" => lastCheck'.args = NoArgs)
       /\ (CallEnds => Appended \in ErrorTexts)
       /\ (~CallEnds => messages' = messages)]_vars

\* C23 amended: as above, and the call ends as a tool message that carries
\* the permission denial when the permission check or the user denies it, and
\* the argument-parse error of the executor otherwise.
C23_MalformedIsDeniedOrToolError ==
  [][MalformedCall =>
       /\ pc' # "failed"
       /\ effects' = effects
       /\ (lastCheck' # lastCheck /\ pc = "tool" => lastCheck'.args = NoArgs)
       /\ (CallEnds =>
             Appended = IF lastCheck'.id = CurrentCalls[tcIndex].id
                           /\ lastCheck'.result = "deny"
                          THEN deniedMsg(CurrentCalls[tcIndex].name)
                          ELSE "Error: Failed to parse arguments")
       /\ (~CallEnds => messages' = messages)]_vars

\* a malformed call of a gated tool was allowed at the prompt, reached the
\* executor and ended as the parse error
C23_Witness ==
  /\ Len(messages) >= 2
  /\ Last(messages).role = "tool"
  /\ Last(messages).content = "Error: Failed to parse arguments"
  /\ lastCheck.id = Last(messages).toolCallId
  /\ lastCheck.result = "allow"
  /\ lastCheck.args = NoArgs
  /\ Len(executed) > 0
  /\ ~JSONparse(Last(executed).arguments).ok
  /\ Last(executed).name \in DANGEROUS_TOOLS

\* the command lines that are blocked when they are the whole line
BlockedCommands ==
  {<<"rm", "-rf", "/">>, <<"rm", "-rf", "~">>, <<"rm", "-rf", ".">>, <<"mkfs">>,
   <<"curl", "u", "|", "sh">>}

\* the line holds the command as a run of consecutive words
Contains(line, cmd) ==
  \E i \in 0..(Len(line) - Len(cmd)) : SubSeq(line, i + 1, i + Len(cmd)) = cmd

\* C21: analyseCommand returns blocked for every command line that contains
\* a blocked command, whatever text surrounds it, including when the blocked
\* command is one segment of a piped or chained line.
C21_BlockedAnywhere ==
  (classified.kind = "command"
     /\ \E cmd \in BlockedCommands : Contains(classified.input, cmd))
    => classified.verdict.level = "blocked"

\* the absolute path a write path resolves to, "~" standing for $HOME
Resolved(p) == IF Len(p) > 0 /\ p[1] = "~" THEN HOME \o Tail(p) ELSE p

\* C22: analyseWritePath returns blocked for every absolute path under
\* /etc/, destructive for every path that resolves to $HOME/.bashrc, written
\* with "~" or with the home directory spelled out, and mutating for src/x.
C22_WritePathTiers ==
  classified.kind = "path" =>
    /\ (StartsWith(classified.input, <<"/", "etc", "/">>)
          => classified.verdict.level = "blocked")
    /\ (Resolved(classified.input) = HOME \o <<"/", ".bashrc">>
          => classified.verdict.level = "destructive")
    /\ (classified.input = <<"src", "/", "x">>
          => classified.verdict.level = "mutating")

\* ------------------------------------------- edit_file (tools/editFile.ts)
\* characters of a file, at most
MaxContentLen == 3
\* characters of old_string, at most
MaxOldLen == 2
\* the value at which count++ no longer changes a double (2^53), scaled down
CountCeiling == 5

\* the strings of at most n characters over the alphabet
RECURSIVE StringsUpTo(_, _)
StringsUpTo(alphabet, n) ==
  IF n = 0 THEN {<<>>}
  ELSE StringsUpTo(alphabet, n - 1) \cup
       {Append(w, c) : w \in {v \in StringsUpTo(alphabet, n - 1) : Len(v) = n - 1},
                       c \in alphabet}

FileContents == StringsUpTo({"a", "b"}, MaxContentLen)
OldStrings == StringsUpTo({"a", "b"}, MaxOldLen)
NewStrings == {<<>>, <<"z">>, <<"a", "b">>}

\* String.prototype.indexOf(needle, from), positions counted from 0
indexOf(haystack, needle, from) ==
  LET start == IF from < Len(haystack) THEN from ELSE Len(haystack)
      found == {i \in start..(Len(haystack) - Len(needle)) :
                  SubSeq(haystack, i + 1, i + Len(needle)) = needle}
  IN IF found = {} THEN -1 ELSE CHOOSE i \in found : \A j \in found : i <= j

\* String.prototype.slice(from) and slice(0, to)
sliceFrom(str, from) == SubSeq(str, from + 1, Len(str))
sliceTo(str, to) == SubSeq(str, 1, to)

\* content.split(old_string).join(new_string)
RECURSIVE splitJoin(_, _, _)
splitJoin(content, old, new) ==
  IF old = <<>>
    THEN IF Len(content) <= 1 THEN content
         ELSE <<Head(content)>> \o new \o splitJoin(Tail(content), old, new)
  ELSE LET pos == indexOf(content, old, 0)
       IN IF pos = -1 THEN content
          ELSE sliceTo(content, pos) \o new \o
               splitJoin(sliceFrom(content, pos + Len(old)), old, new)

\* mutant: the text after the insertion starts at the match, not after it
replaceFirst_KeepsOld(content, old, new) ==
  LET pos == indexOf(content, old, 0)
  IN sliceTo(content, pos) \o new \o sliceFrom(content, pos)

\* content.slice(0, pos) + new_string + content.slice(pos + old_string.length)
replaceFirst(content, old, new) ==
  LET pos == indexOf(content, old, 0)
  IN sliceTo(content, pos) \o new \o sliceFrom(content, pos + Len(old))

ToolErrorResult(kind, n) == [kind |-> kind, count |-> n]

\* readFile settles
EditRead ==
  /\ pc = "edit"
  /\ edit.pc = "read"
  /\ edit' = IF edit.readable
               THEN [edit EXCEPT !.pc = "count", !.content = edit.file,
                                 !.count = 0, !.pos = 0]
               ELSE [edit EXCEPT !.pc = "thrown",
                                 !.result = ToolErrorResult("Failed to read file", 0)]
  /\ UNCHANGED <<turns, streaming, sse, toolsSent, classified, indexer, jsonOutput, stdout, poll, launch, auth, flags, session, stream, isTTY,
                 state, provider, history, messages, pc, iteration, toolCallCount, tcIndex,
                 providerCalls, lastCheck, promptCount, executed, effects, result, canon>>

\* countOccurrences: at "count" one evaluation of the loop condition (pos
\* takes the value of indexOf), at "count body" one run of the loop body
CountIteration ==
  /\ pc = "edit"
  /\ edit.pc \in {"count", "count body"}
  /\ LET found == indexOf(edit.content, edit.args.old_string, edit.pos)
     IN edit' = IF edit.pc = "count body"
                  THEN [edit EXCEPT !.pc = "count",
                                    !.count = IF @ < CountCeiling THEN @ + 1 ELSE @,
                                    !.pos = @ + Len(edit.args.old_string)]
                ELSE IF found # -1
                  THEN [edit EXCEPT !.pc = "count body", !.pos = found]
                ELSE [edit EXCEPT !.pc = "counted", !.pos = -1]
  /\ UNCHANGED <<turns, streaming, sse, toolsSent, classified, indexer, jsonOutput, stdout, poll, launch, auth, flags, session, stream, isTTY,
                 state, provider, history, messages, pc, iteration, toolCallCount, tcIndex,
                 providerCalls, lastCheck, promptCount, executed, effects, result, canon>>

\* countOccurrences has returned: the two count tests, then the replacement
\* up to the call of writeFile
EditReplace ==
  /\ pc = "edit"
  /\ edit.pc = "counted"
  /\ edit' =
       IF edit.count = 0
         THEN [edit EXCEPT !.pc = "thrown",
                           !.result = ToolErrorResult("old_string not found", 0)]
       ELSE IF edit.count > 1 /\ ~edit.args.replace_all
         THEN [edit EXCEPT !.pc = "thrown",
                           !.result = ToolErrorResult("old_string matches N locations",
                                                      edit.count)]
       ELSE IF edit.args.replace_all
         THEN [edit EXCEPT !.pc = "write",
                           !.newContent = splitJoin(edit.content, edit.args.old_string,
                                                    edit.args.new_string),
                           !.replacements = edit.count]
       ELSE [edit EXCEPT !.pc = "write",
                         !.newContent = replaceFirst(edit.content, edit.args.old_string,
                                                     edit.args.new_string),
                         !.replacements = 1]
  /\ UNCHANGED <<turns, streaming, sse, toolsSent, classified, indexer, jsonOutput, stdout, poll, launch, auth, flags, session, stream, isTTY,
                 state, provider, history, messages, pc, iteration, toolCallCount, tcIndex,
                 providerCalls, lastCheck, promptCount, executed, effects, result, canon>>

\* writeFile settles; on success the summary is built and returned
EditWrite ==
  /\ pc = "edit"
  /\ edit.pc = "write"
  /\ edit' = IF edit.writable
               THEN [edit EXCEPT !.pc = "returned", !.file = edit.newContent,
                                 !.result = [kind |-> "Edited", count |-> edit.replacements]]
               ELSE [edit EXCEPT !.pc = "thrown",
                                 !.result = ToolErrorResult("Failed to write file", 0)]
  /\ UNCHANGED <<turns, streaming, sse, toolsSent, classified, indexer, jsonOutput, stdout, poll, launch, auth, flags, session, stream, isTTY,
                 state, provider, history, messages, pc, iteration, toolCallCount, tcIndex,
                 providerCalls, lastCheck, promptCount, executed, effects, result, canon>>

\* executeEditFile is called on a file and arguments
InitEdit ==
  /\ pc = "edit"
  /\ edit \in {[NoEdit EXCEPT !.pc = "read", !.file = f, !.readable = r, !.writable = w,
                              !.args = [old_string |-> o, new_string |-> n,
                                        replace_all |-> all]] :
                 f \in FileContents, r \in BOOLEAN, w \in BOOLEAN, o \in OldStrings,
                 n \in NewStrings, all \in BOOLEAN}
  /\ classified = NoVerdict
  /\ session = "run"
  /\ stream = FALSE
  /\ isTTY = TRUE
  /\ flags = [allowWrite |-> FALSE, allowShell |-> FALSE]
  /\ state = PermissionManager(flags)
  /\ provider = [mode |-> "menu", left |-> 0, nextId |-> 1, supportsTools |-> TRUE]
  /\ history = <<>>
  /\ messages = <<>>
  /\ iteration = 0
  /\ toolCallCount = 0
  /\ tcIndex = 0
  /\ providerCalls = 0
  /\ lastCheck = NoCheck
  /\ promptCount = 0
  /\ executed = <<>>
  /\ effects = {}
  /\ result = NoResult
  /\ canon = <<>>
  /\ turns = 0
  /\ streaming = NoStream
  /\ auth = NoAuth
  /\ launch = NoLaunch
  /\ poll = NoPoll
  /\ stdout = <<>>
  /\ jsonOutput = FALSE
  /\ indexer = NoIndex
  /\ toolsSent = NotCalled
  /\ sse = NoSSE

NextEdit ==
  \/ EditRead
  \/ CountIteration
  \/ EditReplace
  \/ EditWrite

SpecEdit == InitEdit /\ [][NextEdit]_vars

\* every step of executeEditFile that can be taken is eventually taken
SpecEditFair == SpecEdit /\ WF_vars(NextEdit)

\* the number of non-overlapping occurrences of a string, left to right;
\* the empty string occurs before every character and at the end
RECURSIVE Occurrences(_, _)
Occurrences(haystack, needle) ==
  IF needle = <<>> THEN Len(haystack) + 1
  ELSE IF Len(haystack) < Len(needle) THEN 0
  ELSE IF SubSeq(haystack, 1, Len(needle)) = needle
    THEN 1 + Occurrences(SubSeq(haystack, Len(needle) + 1, Len(haystack)), needle)
  ELSE Occurrences(Tail(haystack), needle)

\* the call has ended, by a return or by a thrown tool error
EditEnded == edit.pc \in {"thrown", "returned"}

\* the file can be read and written
EditUsable == pc = "edit" /\ edit.readable /\ edit.writable

\* the outcome is the one the number of occurrences calls for
EditOutcomeFits ==
  LET n == Occurrences(edit.content, edit.args.old_string)
  IN IF n = 0 THEN edit.pc = "thrown" /\ edit.result = ToolErrorResult("old_string not found", 0)
     ELSE IF n > 1 /\ ~edit.args.replace_all
       THEN /\ edit.pc = "thrown"
            /\ edit.result = ToolErrorResult("old_string matches N locations", n)
     ELSE edit.pc = "returned" /\ edit.result.kind = "Edited"

\* C24: for every readable file content and every old_string, the empty
\* string included, executeEditFile terminates, and with exactly one of three
\* outcomes: a tool error when old_string occurs zero times, a tool error
\* naming the number of matches when it occurs more than once and replace_all
\* is not set, or a completed replacement.
C24_TerminatesWithOneOutcome ==
  /\ [](EditUsable /\ EditEnded => EditOutcomeFits)
  /\ (EditUsable ~> EditEnded)

\* the second text is the first with one occurrence of old replaced by
\* new, the text before and after it kept
OneReplaced(before, after, old, new) ==
  \E i \in 0..(Len(before) - Len(old)) :
    /\ SubSeq(before, i + 1, i + Len(old)) = old
    /\ after = SubSeq(before, 1, i) \o new \o SubSeq(before, i + Len(old) + 1, Len(before))

\* C25: edit_file changes the file only by replacing matched occurrences: a
\* call that ends in a tool error (unreadable file, zero matches, several
\* matches without replace_all) leaves the file content unchanged, and a call
\* that succeeds without replace_all leaves the old content with its single
\* occurrence of old_string replaced by new_string and the text before and
\* after it preserved.
C25_EditFrame ==
  [][/\ (edit'.pc # "returned" => edit'.file = edit.file)
     /\ (edit'.pc = "thrown" => edit'.result.kind \in
           {"Failed to read file", "old_string not found",
            "old_string matches N locations", "Failed to write file"})
     /\ (edit'.pc = "returned" /\ ~edit.args.replace_all =>
           /\ Occurrences(edit.file, edit.args.old_string) = 1
           /\ OneReplaced(edit.file, edit'.file, edit.args.old_string,
                          edit.args.new_string))]_vars

\* a single occurrence in the middle of the file was replaced
C25_Witness ==
  /\ edit.pc = "returned"
  /\ ~edit.args.replace_all
  /\ edit.content = <<"a", "b", "a">>
  /\ edit.args.old_string = <<"b">>
  /\ edit.file = <<"a">> \o edit.args.new_string \o <<"a">>
  /\ edit.file # edit.content

\* ------------------------------------ file indexing (ui/fileContext.ts)
MAX_DEPTH == 4
MAX_FILES == 5000
MAX_INDEX_FILE_SIZE == 1048576

\* files of the one large directory of the tree, at most
MaxBulk == 5001

IGNORED_DIRS == {"node_modules", ".git", "dist", "build", ".venv", ".env", "vendor"}

\* the members of the whitelist that the file names below use
TEXT_EXTENSIONS == {".md", ".ts", ".json", ".log"}

TEXT_FILENAMES == {"Makefile", "LICENSE", ".gitignore"}

\* path.extname of a file name
extname(name) ==
  CASE name \in {"a.ts", "big.ts", "x.ts", "f.ts", "gone.ts", "link.ts", "link2.ts",
                 "broken.ts", "fifo.ts"} -> ".ts"
    [] name \in {"edge.md", "loop.md"} -> ".md"
    [] name = "img.png" -> ".png"
    [] name = "k.key" -> ".key"
    [] OTHER -> ""

\* a relative path is the sequence of its names
isTextFile(filename) ==
  \/ (extname(Last(filename)) # "" /\ extname(Last(filename)) \in TEXT_EXTENSIONS)
  \/ Last(filename) \in TEXT_FILENAMES

\* the lines of .caretforgeignore: "# keys", "logs/", " *.key ", "", "LICENSE"
IgnoreFileLines ==
  << [kind |-> "comment", value |-> "keys"], [kind |-> "dir", value |-> "logs"],
     [kind |-> "glob", value |-> ".key"], [kind |-> "blank", value |-> ""],
     [kind |-> "name", value |-> "LICENSE"] >>

loadIgnorePatterns(exists) ==
  IF exists THEN SelectSeq(IgnoreFileLines, LAMBDA l : l.kind \notin {"blank", "comment"})
  ELSE <<>>

matchesPattern(relPath, pattern) ==
  CASE pattern.kind = "dir" ->
         \E i \in 1..(Len(relPath) - 1) : relPath[i] = pattern.value
    [] pattern.kind = "glob" -> extname(Last(relPath)) = pattern.value
    [] OTHER -> \/ relPath = <<pattern.value>>
                \/ (Len(relPath) > 1 /\ relPath[1] = pattern.value)
                \/ Last(relPath) = pattern.value

matchesIgnorePattern(relPath, patterns) ==
  \E i \in 1..Len(patterns) : matchesPattern(relPath, patterns[i])

\* the directory tree that is indexed: the entries of a directory, in the
\* order readdir returns them; "many" holds `bulk` files
Dirent(name, type) == [name |-> name, type |-> type]

SmallDir(dir) ==
  CASE dir = <<>> ->
         << Dirent("a.ts", "file"), Dirent("img.png", "file"), Dirent("big.ts", "file"),
            Dirent("edge.md", "file"), Dirent("LICENSE", "file"), Dirent("k.key", "file"),
            Dirent("gone.ts", "file"), Dirent("link.ts", "symlink"),
            Dirent("link2.ts", "symlink"), Dirent("broken.ts", "symlink"),
            Dirent("fifo.ts", "symlink"), Dirent(".hidden", "dir"),
            Dirent("node_modules", "dir"), Dirent("d1", "dir"), Dirent("logs", "dir"),
            Dirent("locked", "dir"), Dirent("many", "dir") >>
    [] dir = <<"d1">> ->
         << Dirent("x.ts", "file"), Dirent("loop", "symlink"), Dirent("loop.md", "symlink"),
            Dirent("d2", "dir") >>
    [] dir = <<"d1", "d2">> -> << Dirent("x.ts", "file"), Dirent("d3", "dir") >>
    [] dir = <<"d1", "d2", "d3">> -> << Dirent("x.ts", "file"), Dirent("d4", "dir") >>
    [] dir = <<"d1", "d2", "d3", "d4">> -> << Dirent("x.ts", "file"), Dirent("d5", "dir") >>
    [] OTHER -> << Dirent("x.ts", "file") >>

\* readdir(dir, {withFileTypes: true}): the number of entries and the i-th
readdirFails(dir) == dir = <<"locked">>

readdirLen(dir, bulk) == IF dir = <<"many">> THEN bulk ELSE Len(SmallDir(dir))

readdirAt(dir, i) == IF dir = <<"many">> THEN Dirent("f.ts", "file") ELSE SmallDir(dir)[i]

\* realpath(fullPath) of a symbolic link; "ENOENT" when it throws
realpath(fullPath) ==
  CASE fullPath \in {<<"link.ts">>, <<"link2.ts">>} -> "/root/a.ts"
    [] fullPath \in {<<"d1", "loop">>, <<"d1", "loop.md">>} -> "/root"
    [] fullPath = <<"fifo.ts">> -> "/root/pipe"
    [] OTHER -> "ENOENT"

\* lstat(real) says FIFO, socket or device
isSpecial(real) == real = "/root/pipe"

\* stat(path).size, following symbolic links; -1 when stat throws
statSize(path) ==
  CASE Last(path) = "big.ts" -> MAX_INDEX_FILE_SIZE + 1
    [] Last(path) = "edge.md" -> MAX_INDEX_FILE_SIZE
    [] Last(path) \in {"gone.ts", "broken.ts"} -> -1
    [] Last(path) \in {"loop", "loop.md"} -> 4096
    [] Last(path) = "f.ts" -> 1
    [] OTHER -> 10

\* the output of `git ls-files --cached --others --exclude-standard`, the
\* files of "many" last
GitListed ==
  << <<"a.ts">>, <<"img.png">>, <<"big.ts">>, <<"edge.md">>, <<"LICENSE">>, <<"k.key">>,
     <<"gone.ts">>, <<"link.ts">>, <<"d1", "x.ts">>,
     <<"d1", "d2", "d3", "d4", "d5", "x.ts">>, <<"logs", "x.ts">> >>

gitFilesLen(bulk) == Len(GitListed) + bulk

gitFilesAt(i) == IF i <= Len(GitListed) THEN GitListed[i] ELSE <<"many", "f.ts">>

\* entry.name.startsWith('.')
startsWithDot(name) == name \in {".hidden", ".git", ".venv", ".env", ".gitignore"}

IndexedFile(path, size) == [path |-> path, size |-> size]

\* mutant: the size of a file is recorded but not tested
indexFile_AnySize(ix, relPath) ==
  IF ix.ignorePatterns # <<>> /\ matchesIgnorePattern(relPath, ix.ignorePatterns)
    THEN [ix EXCEPT !.skippedIgnored = @ + 1]
  ELSE IF ~isTextFile(relPath) THEN [ix EXCEPT !.skippedBinary = @ + 1]
  ELSE IF statSize(relPath) = -1 THEN ix
  ELSE [ix EXCEPT !.files = @ (+) SetToBag({IndexedFile(relPath, statSize(relPath))})]

\* the tests a path passes before it is pushed to files: the ignore patterns,
\* the text whitelist, stat and the size limit (the same statements in the
\* git loop and in walk)
indexFile(ix, relPath) ==
  IF ix.ignorePatterns # <<>> /\ matchesIgnorePattern(relPath, ix.ignorePatterns)
    THEN [ix EXCEPT !.skippedIgnored = @ + 1]
  ELSE IF ~isTextFile(relPath) THEN [ix EXCEPT !.skippedBinary = @ + 1]
  ELSE IF statSize(relPath) = -1 THEN ix
  ELSE IF statSize(relPath) > MAX_INDEX_FILE_SIZE THEN [ix EXCEPT !.skippedLarge = @ + 1]
  ELSE [ix EXCEPT !.files = @ (+) SetToBag({IndexedFile(relPath, statSize(relPath))})]

\* files.sort(...) and the return statement
IndexReturn(ix, method, timedOut) ==
  [ix EXCEPT !.pc = "returned",
             !.stack = <<>>,
             !.result = [files |-> ix.files, timedOut |-> timedOut, method |-> method,
                         skippedLarge |-> ix.skippedLarge,
                         skippedBinary |-> ix.skippedBinary,
                         skippedIgnored |-> ix.skippedIgnored]]

Frame(dir, depth) == [dir |-> dir, depth |-> depth, entered |-> FALSE, i |-> 0]

\* the deadline is set, the ignore patterns are loaded, isGitRepo and
\* gitListFiles settle; without a listing walk(root, 0) is called
IndexStart ==
  /\ pc = "index"
  /\ indexer.pc = "start"
  /\ indexer' =
       LET ix == [indexer EXCEPT !.ignorePatterns = loadIgnorePatterns(indexer.hasIgnoreFile)]
       IN IF indexer.inGit /\ indexer.gitOk
            THEN [ix EXCEPT !.pc = "git"]
            ELSE [ix EXCEPT !.pc = "walk", !.stack = <<Frame(<<>>, 0)>>]
  /\ UNCHANGED <<turns, streaming, sse, toolsSent, classified, edit, jsonOutput, stdout, poll, launch, auth, flags, session, stream,
                 isTTY, state, provider, history, messages, pc, iteration, toolCallCount,
                 tcIndex, providerCalls, lastCheck, promptCount, executed, effects, result,
                 canon>>

\* the clock passes the deadline while indexFilesWithMeta waits
DeadlinePasses ==
  /\ pc = "index"
  /\ indexer.pc \in {"git", "walk"}
  /\ ~indexer.expired
  /\ indexer' = [indexer EXCEPT !.expired = TRUE]
  /\ UNCHANGED <<turns, streaming, sse, toolsSent, classified, edit, jsonOutput, stdout, poll, launch, auth, flags, session, stream,
                 isTTY, state, provider, history, messages, pc, iteration, toolCallCount,
                 tcIndex, providerCalls, lastCheck, promptCount, executed, effects, result,
                 canon>>

\* one iteration of `for (const relPath of gitFiles)`
GitEntry ==
  /\ pc = "index"
  /\ indexer.pc = "git"
  /\ indexer.position < gitFilesLen(indexer.bulk)
  /\ indexer' =
       IF indexer.expired THEN IndexReturn(indexer, "git", TRUE)
       ELSE IF BagCardinality(indexer.files) >= MAX_FILES
         THEN IndexReturn(indexer, "git", FALSE)
       ELSE indexFile([indexer EXCEPT !.position = @ + 1, !.examined = @ + 1],
                      gitFilesAt(indexer.position + 1))
  /\ UNCHANGED <<turns, streaming, sse, toolsSent, classified, edit, jsonOutput, stdout, poll, launch, auth, flags, session, stream,
                 isTTY, state, provider, history, messages, pc, iteration, toolCallCount,
                 tcIndex, providerCalls, lastCheck, promptCount, executed, effects, result,
                 canon>>

\* the git loop has gone through the whole listing
GitDone ==
  /\ pc = "index"
  /\ indexer.pc = "git"
  /\ indexer.position = gitFilesLen(indexer.bulk)
  /\ indexer' = IndexReturn(indexer, "git", FALSE)
  /\ UNCHANGED <<turns, streaming, sse, toolsSent, classified, edit, jsonOutput, stdout, poll, launch, auth, flags, session, stream,
                 isTTY, state, provider, history, messages, pc, iteration, toolCallCount,
                 tcIndex, providerCalls, lastCheck, promptCount, executed, effects, result,
                 canon>>

\* maxDepth, the second parameter of indexFilesWithMeta, at its default
maxDepth == MAX_DEPTH

\* walk returns to its caller; the return of walk(root, 0) is followed by
\* the sort and the return of the result
WalkReturns(ix) ==
  IF Len(ix.stack) = 1 THEN IndexReturn(ix, "walk", ix.expired)
  ELSE [ix EXCEPT !.stack = SubSeq(@, 1, Len(@) - 1)]

\* the frame of the running call of walk
Top(ix) == ix.stack[Len(ix.stack)]

\* walk(dir, depth) is called: the depth, count and deadline tests, readdir
WalkEnter ==
  /\ pc = "index"
  /\ indexer.pc = "walk"
  /\ ~Top(indexer).entered
  /\ indexer' =
       IF Top(indexer).depth > maxDepth \/ BagCardinality(indexer.files) >= MAX_FILES
         THEN WalkReturns(indexer)
       ELSE IF indexer.expired THEN WalkReturns(indexer)
       ELSE IF readdirFails(Top(indexer).dir) THEN WalkReturns(indexer)
       ELSE [indexer EXCEPT !.stack[Len(indexer.stack)].entered = TRUE,
                            !.readDirs = @ \cup {Top(indexer).dir}]
  /\ UNCHANGED <<turns, streaming, sse, toolsSent, classified, edit, jsonOutput, stdout, poll, launch, auth, flags, session, stream,
                 isTTY, state, provider, history, messages, pc, iteration, toolCallCount,
                 tcIndex, providerCalls, lastCheck, promptCount, executed, effects, result,
                 canon>>

\* the symbolic-link test of an entry: "skip" when the loop continues
symlinkCheck(ix, fullPath) ==
  LET real == realpath(fullPath)
  IN IF real = "ENOENT" THEN [skip |-> TRUE, ix |-> ix]
     ELSE IF real \in ix.visitedRealPaths THEN [skip |-> TRUE, ix |-> ix]
     ELSE [skip |-> isSpecial(real),
           ix |-> [ix EXCEPT !.visitedRealPaths = @ \cup {real},
                             !.followed = Append(@, real)]]

\* the rest of the loop body: directories are entered, files are tested
walkEntry(ix, entry, fullPath) ==
  IF startsWithDot(entry.name) /\ entry.type = "dir" THEN ix
  ELSE IF entry.type = "dir"
    THEN IF entry.name \in IGNORED_DIRS THEN ix
         ELSE [ix EXCEPT !.stack = Append(@, Frame(fullPath, Top(ix).depth + 1))]
  ELSE indexFile(ix, fullPath)

\* one iteration of `for (const entry of entries)` in walk
WalkEntry ==
  /\ pc = "index"
  /\ indexer.pc = "walk"
  /\ Top(indexer).entered
  /\ Top(indexer).i < readdirLen(Top(indexer).dir, indexer.bulk)
  /\ indexer' =
       IF BagCardinality(indexer.files) >= MAX_FILES \/ indexer.expired
         THEN WalkReturns(indexer)
       ELSE LET entry == readdirAt(Top(indexer).dir, Top(indexer).i + 1)
                fullPath == Append(Top(indexer).dir, entry.name)
                ix == [indexer EXCEPT !.stack[Len(indexer.stack)].i = @ + 1,
                                      !.examined = @ + 1]
                link == symlinkCheck(ix, fullPath)
            IN IF entry.type = "symlink"
                 THEN IF link.skip THEN link.ix ELSE walkEntry(link.ix, entry, fullPath)
                 ELSE walkEntry(ix, entry, fullPath)
  /\ UNCHANGED <<turns, streaming, sse, toolsSent, classified, edit, jsonOutput, stdout, poll, launch, auth, flags, session, stream,
                 isTTY, state, provider, history, messages, pc, iteration, toolCallCount,
                 tcIndex, providerCalls, lastCheck, promptCount, executed, effects, result,
                 canon>>

\* the loop of walk has gone through the entries of the directory
WalkDone ==
  /\ pc = "index"
  /\ indexer.pc = "walk"
  /\ Top(indexer).entered
  /\ Top(indexer).i = readdirLen(Top(indexer).dir, indexer.bulk)
  /\ indexer' = WalkReturns(indexer)
  /\ UNCHANGED <<turns, streaming, sse, toolsSent, classified, edit, jsonOutput, stdout, poll, launch, auth, flags, session, stream,
                 isTTY, state, provider, history, messages, pc, iteration, toolCallCount,
                 tcIndex, providerCalls, lastCheck, promptCount, executed, effects, result,
                 canon>>

\* indexFilesWithMeta is called on the tree
InitIndex ==
  /\ pc = "index"
  /\ indexer \in {[NoIndex EXCEPT !.pc = "start", !.inGit = g, !.gitOk = ok,
                                  !.hasIgnoreFile = ig, !.bulk = b] :
                    g \in BOOLEAN, ok \in BOOLEAN, ig \in BOOLEAN, b \in {0, MaxBulk}}
  /\ edit = NoEdit
  /\ classified = NoVerdict
  /\ session = "run"
  /\ stream = FALSE
  /\ isTTY = TRUE
  /\ flags = [allowWrite |-> FALSE, allowShell |-> FALSE]
  /\ state = PermissionManager(flags)
  /\ provider = [mode |-> "menu", left |-> 0, nextId |-> 1, supportsTools |-> TRUE]
  /\ history = <<>>
  /\ messages = <<>>
  /\ iteration = 0
  /\ toolCallCount = 0
  /\ tcIndex = 0
  /\ providerCalls = 0
  /\ lastCheck = NoCheck
  /\ promptCount = 0
  /\ executed = <<>>
  /\ effects = {}
  /\ result = NoResult
  /\ canon = <<>>
  /\ turns = 0
  /\ streaming = NoStream
  /\ auth = NoAuth
  /\ launch = NoLaunch
  /\ poll = NoPoll
  /\ stdout = <<>>
  /\ jsonOutput = FALSE
  /\ toolsSent = NotCalled
  /\ sse = NoSSE

NextIndex ==
  \/ IndexStart
  \/ DeadlinePasses
  \/ GitEntry
  \/ GitDone
  \/ WalkEnter
  \/ WalkEntry
  \/ WalkDone

SpecIndex == InitIndex /\ [][NextIndex]_vars

\* every step of indexFilesWithMeta that can be taken is eventually taken;
\* the clock need not reach the deadline
SpecIndexFair ==
  SpecIndex /\ WF_vars(IndexStart \/ GitEntry \/ GitDone \/ WalkEnter \/ WalkEntry \/ WalkDone)

\* the file may be in an index: its size, its name and the ignore file
Indexable(f) ==
  /\ f.size <= 1048576
  /\ (extname(Last(f.path)) \in TEXT_EXTENSIONS \/ Last(f.path) \in TEXT_FILENAMES)
  /\ ~matchesIgnorePattern(f.path, loadIgnorePatterns(indexer.hasIgnoreFile))

\* C26: every result of indexFilesWithMeta, in git mode and in walk mode,
\* holds at most 5,000 files, each of at most 1,048,576 bytes, each with a
\* whitelisted text extension or text file name, and none matching a pattern
\* of .caretforgeignore.
C26_IndexWithinLimits ==
  indexer.pc = "returned" =>
    /\ indexer.result.method \in {"git", "walk"}
    /\ BagCardinality(indexer.result.files) <= 5000
    /\ \A f \in BagToSet(indexer.result.files) : Indexable(f)

\* a walk stopped at 5,000 files, with a file of exactly 1 MiB among them and
\* a large, a binary and an ignored file skipped
C26_Witness ==
  /\ indexer.pc = "returned"
  /\ indexer.result.method = "walk"
  /\ BagCardinality(indexer.result.files) = 5000
  /\ BagIn(IndexedFile(<<"edge.md">>, 1048576), indexer.result.files)
  /\ indexer.result.skippedLarge > 0
  /\ indexer.result.skippedBinary > 0
  /\ indexer.result.skippedIgnored > 0

\* no element occurs twice in the sequence
NoRepeats(seq) == \A i, j \in 1..Len(seq) : seq[i] = seq[j] => i = j

\* C27: indexFilesWithMeta terminates on every directory tree, symlink
\* cycles and broken symlinks included: walk mode reads no directory below
\* depth 4 and goes on with the same symlink target only once, and once the
\* deadline has passed no further entry is examined and the files collected
\* so far are returned with timedOut = true.
C27_TerminatesWithinLimits ==
  /\ <>(indexer.pc = "returned")
  /\ [](\A dir \in indexer.readDirs : Len(dir) <= 4)
  /\ [](\A f \in BagToSet(indexer.files) :
          indexer.pc = "walk" => Len(f.path) - 1 <= 4)
  /\ [](NoRepeats(indexer.followed))
  /\ [][indexer.expired => indexer'.examined = indexer.examined]_vars
  /\ [](indexer.pc = "returned" /\ indexer.expired =>
          indexer.result.timedOut /\ indexer.result.files = indexer.files)

\* ------------------------------------------- run --json (cli/run.ts)
\* the object printed with --json after runAgent has resolved
JsonResult ==
  [kind |-> "json result",
   keys |-> {"task", "model", "provider", "finalContent", "toolCallCount", "durationMs",
             "messages"},
   finalContent |-> result.finalContent,
   toolCallCount |-> result.toolCallCount,
   messages |-> Tail(result.messages)]

\* the rest of the action of runCommand: the result or the error is printed
\* and the process exits
RunExit ==
  /\ session = "run"
  /\ pc \in {"done", "failed"}
  /\ pc' = "exited"
  /\ stdout' = stdout \o
       (IF pc = "done"
          THEN IF jsonOutput THEN <<JsonResult>>
               ELSE IF ~stream /\ Truthy(result.finalContent)
                 THEN <<Written("final content")>>
               ELSE <<Written("newline")>>
          ELSE IF jsonOutput THEN <<[kind |-> "json error", keys |-> {"error"}]>>
               ELSE <<>>)
  /\ UNCHANGED <<turns, streaming, sse, toolsSent, classified, edit, indexer, jsonOutput,
                 poll, launch, auth, flags, session, stream, isTTY, state, provider, history, messages,
                 iteration, toolCallCount, tcIndex, providerCalls, lastCheck, promptCount,
                 executed, effects, result, canon>>

\* the answers the user may type at the disclaimer
DisclaimerAnswers == {<<>>, <<" ", "Y">>, <<"y", "e", "s">>, <<"n">>, <<"a">>}

\* mutant: a session started without a terminal skips the disclaimer
EnsureDisclaimer_SkipsWithoutTerminal ==
  /\ pc = "launch"
  /\ IF isTTY
       THEN /\ launch' = [launch EXCEPT !.shown = TRUE]
            /\ pc' = "disclaimer"
            /\ Writes(<<Written("disclaimer"), Written("disclaimer prompt")>>)
       ELSE /\ launch' = [launch EXCEPT !.accepted = TRUE]
            /\ pc' = "setup"
            /\ UNCHANGED stdout
  /\ UNCHANGED <<turns, streaming, sse, toolsSent, classified, edit, indexer, jsonOutput,
                 poll, auth, flags, session, stream, isTTY, state, provider, history, messages,
                 iteration, toolCallCount, tcIndex, providerCalls, lastCheck, promptCount,
                 executed, effects, result, canon>>

\* ensureDisclaimer up to the question: without a terminal it refuses and the
\* command exits; with one, the disclaimer is printed and the question asked
EnsureDisclaimer ==
  /\ pc = "launch"
  /\ IF isTTY
       THEN /\ launch' = [launch EXCEPT !.shown = TRUE]
            /\ pc' = "disclaimer"
            /\ Writes(<<Written("disclaimer"), Written("disclaimer prompt")>>)
       ELSE /\ pc' = "exited"
            /\ UNCHANGED <<launch, stdout>>
  /\ UNCHANGED <<turns, streaming, sse, toolsSent, classified, edit, indexer, jsonOutput,
                 poll, auth, flags, session, stream, isTTY, state, provider, history, messages,
                 iteration, toolCallCount, tcIndex, providerCalls, lastCheck, promptCount,
                 executed, effects, result, canon>>

\* ensureDisclaimer once the answer has been read, and `if (!accepted)
\* process.exit(0)` of the command
AnswerDisclaimer ==
  /\ pc = "disclaimer"
  /\ \E answer \in DisclaimerAnswers :
       LET normalised == ToLowerCase(Trim(answer))
           accepted == normalised = <<"y">> \/ normalised = <<"y", "e", "s">>
                         \/ normalised = <<>>
       IN /\ launch' = [launch EXCEPT !.answer = answer, !.accepted = accepted]
          /\ pc' = IF accepted THEN "setup" ELSE "exited"
          /\ Writes(IF accepted THEN <<Written("newline")>>
                    ELSE <<Written("newline"), Written("declined")>>)
  /\ UNCHANGED <<turns, streaming, sse, toolsSent, classified, edit, indexer, jsonOutput,
                 poll, auth, flags, session, stream, isTTY, state, provider, history, messages,
                 iteration, toolCallCount, tcIndex, providerCalls, lastCheck, promptCount,
                 executed, effects, result, canon>>

\* the command between the disclaimer and its first turn: `run` reads the
\* task (none: exit), resolves the provider, indexes the files and calls
\* runAgent; `chat` resolves the provider, indexes the files and opens the REPL
LaunchSetup ==
  /\ pc = "setup"
  /\ \E task \in IF session = "run" THEN {"task", ""} ELSE {""} :
       IF session = "run" /\ task = ""
         THEN /\ pc' = "exited"
              /\ launch' = [launch EXCEPT !.task = task]
              /\ UNCHANGED <<history, messages>>
         ELSE /\ launch' = [launch EXCEPT !.indexed = TRUE,
                                          !.task = IF session = "run" THEN task ELSE Undef]
              /\ history' = IF session = "run" THEN <<userMessage("task")>> ELSE <<>>
              /\ messages' = IF session = "run"
                               THEN <<systemMessage(SYSTEM_PROMPT)>> \o history'
                               ELSE <<>>
              /\ pc' = IF session = "run" THEN "provider" ELSE "repl"
  /\ UNCHANGED <<turns, streaming, sse, toolsSent, classified, edit, indexer, jsonOutput,
                 stdout, poll, auth, flags, session, stream, isTTY, state, provider, iteration,
                 toolCallCount, tcIndex, providerCalls, lastCheck, promptCount, executed,
                 effects, result, canon>>

\* `caretforge run` with or without --json; --json turns streaming off
InitJson ==
  /\ session = "run"
  /\ jsonOutput \in BOOLEAN
  /\ stream = FALSE
  /\ isTTY \in BOOLEAN
  /\ flags \in [allowWrite : BOOLEAN, allowShell : BOOLEAN]
  /\ state = PermissionManager(flags)
  /\ provider \in {[mode |-> "menu", left |-> MaxToolTurns, nextId |-> 1, supportsTools |-> TRUE],
                   [mode |-> "menu", left |-> 0, nextId |-> 1, supportsTools |-> FALSE]}
  /\ history = <<>>
  /\ messages = <<>>
  /\ pc = "launch"
  /\ iteration = 0
  /\ toolCallCount = 0
  /\ tcIndex = 0
  /\ providerCalls = 0
  /\ lastCheck = NoCheck
  /\ promptCount = 0
  /\ executed = <<>>
  /\ effects = {}
  /\ result = NoResult
  /\ canon = <<>>
  /\ turns = 0
  /\ streaming = NoStream
  /\ auth = NoAuth
  /\ launch = NoLaunch
  /\ poll = NoPoll
  /\ stdout = <<>>
  /\ indexer = NoIndex
  /\ edit = NoEdit
  /\ classified = NoVerdict
  /\ toolsSent = NotCalled
  /\ sse = NoSSE

NextJson ==
  \/ EnsureDisclaimer
  \/ AnswerDisclaimer
  \/ LaunchSetup
  \/ ProviderRespond
  \/ ProviderFail
  \/ BeginToolCall
  \/ AnswerPrompt
  \/ ExecuteTool
  \/ RunExit

SpecJson == InitJson /\ [][NextJson]_vars

\* C28: with --json the only thing written to stdout during a run is one
\* JSON object written after the turn has completed, with the keys task,
\* model, provider, finalContent, toolCallCount, durationMs and messages on
\* success and the key error on failure; no token, tool-call line, permission
\* prompt or safety warning is written before it.
C28_JsonOnlyOneObject ==
  jsonOutput =>
    /\ (pc # "exited" \/ providerCalls = 0 => stdout = <<>>)
    /\ (pc = "exited" /\ providerCalls > 0 =>
          /\ Len(stdout) = 1
          /\ stdout[1].kind \in {"json result", "json error"}
          /\ (result = NoResult) = (stdout[1].kind = "json error")
          /\ stdout[1].keys = IF stdout[1].kind = "json error" THEN {"error"}
                              ELSE {"task", "model", "provider", "finalContent",
                                    "toolCallCount", "durationMs", "messages"})

\* ======================================================================
\* The Azure Agents adapter: create a thread and run, poll the run, fetch
\* the assistant message (azureAnthropic.ts, AzureAgentsProvider)
\* ======================================================================

\* the clock counts microseconds, so that 500 ms * 1.5^k is a whole number
\* for every interval up to the 5 s ceiling
UsPerMs == 1000

\* the longest ordinary answer of the run endpoint, in seconds
MaxFetchSeconds == 2

\* an answer that arrives after the polling ceiling, in milliseconds
SlowFetchMs == 130000

maxWaitMs == 120000

FirstIntervalMs == 500

MaxIntervalMs == 5000

FetchLatencies ==
  {0, 300 * UsPerMs, MaxFetchSeconds * 1000 * UsPerMs, SlowFetchMs * UsPerMs}

\* the statuses on which pollRun returns the run
TerminalStatuses == {"completed", "failed", "cancelled", "expired", "incomplete"}

\* the statuses the run endpoint reports
RunStatuses == TerminalStatuses \cup {"queued", "in_progress", "requires_action"}

ProviderError(message) == [kind |-> "ProviderError", message |-> message]

\* mutant: the interval is not capped
nextInterval_Uncapped(interval) == (interval * 3) \div 2

\* interval = Math.min(interval * 1.5, 5_000)
nextInterval(interval) ==
  IF (interval * 3) \div 2 < MaxIntervalMs * UsPerMs
    THEN (interval * 3) \div 2
    ELSE MaxIntervalMs * UsPerMs

\* createChatCompletion up to the call of pollRun: POST /threads/runs
CreateRun ==
  /\ pc = "poll"
  /\ poll.pc = "create"
  /\ \E answer \in {"ok", "http error", "no ids"} :
       poll' = CASE answer = "http error" ->
                      [poll EXCEPT !.pc = "failed",
                                   !.result = ProviderError("Azure Agents API returned")]
                 [] answer = "no ids" ->
                      [poll EXCEPT !.pc = "failed",
                                   !.result = ProviderError("Unexpected response")]
                 [] OTHER ->
                      [poll EXCEPT !.pc = "loop", !.now = 0,
                                   !.interval = FirstIntervalMs * UsPerMs]
  /\ UNCHANGED <<turns, streaming, sse, toolsSent, classified, edit, indexer, jsonOutput,
                 stdout, launch, auth, flags, session, stream, isTTY, state, provider, history, messages,
                 pc, iteration, toolCallCount, tcIndex, providerCalls, lastCheck,
                 promptCount, executed, effects, result, canon>>

\* pollRun: the loop condition Date.now() - start < maxWaitMs
PollCheck ==
  /\ pc = "poll"
  /\ poll.pc = "loop"
  /\ poll' = IF poll.now < maxWaitMs * UsPerMs
               THEN [poll EXCEPT !.pc = "fetch"]
               ELSE [poll EXCEPT !.pc = "failed",
                                 !.result = ProviderError("Run polling timed out")]
  /\ UNCHANGED <<turns, streaming, sse, toolsSent, classified, edit, indexer, jsonOutput,
                 stdout, launch, auth, flags, session, stream, isTTY, state, provider, history, messages,
                 pc, iteration, toolCallCount, tcIndex, providerCalls, lastCheck,
                 promptCount, executed, effects, result, canon>>

\* pollRun: one GET of the run and the tests of its status
PollFetch ==
  /\ pc = "poll"
  /\ poll.pc = "fetch"
  /\ \E latency \in FetchLatencies, answer \in RunStatuses \cup {"http error"} :
       LET p == [poll EXCEPT !.now = poll.now + latency]
       IN poll' =
            CASE answer = "http error" ->
                   [p EXCEPT !.pc = "failed",
                             !.result = ProviderError("Azure Agents API returned")]
              [] answer \in TerminalStatuses ->
                   [p EXCEPT !.pc = "polled", !.polls = poll.polls + 1, !.status = answer,
                             !.completedRun = answer]
              [] answer = "requires_action" ->
                   [p EXCEPT !.pc = "failed", !.polls = poll.polls + 1, !.status = answer,
                             !.result = ProviderError("requires_action")]
              [] OTHER ->
                   [p EXCEPT !.pc = "sleep", !.polls = poll.polls + 1, !.status = answer]
  /\ UNCHANGED <<turns, streaming, sse, toolsSent, classified, edit, indexer, jsonOutput,
                 stdout, launch, auth, flags, session, stream, isTTY, state, provider, history, messages,
                 pc, iteration, toolCallCount, tcIndex, providerCalls, lastCheck,
                 promptCount, executed, effects, result, canon>>

\* pollRun: wait for the interval, then lengthen it
PollSleep ==
  /\ pc = "poll"
  /\ poll.pc = "sleep"
  /\ poll' = [poll EXCEPT !.pc = "loop",
                          !.now = poll.now + poll.interval,
                          !.waits = Append(poll.waits, poll.interval),
                          !.interval = nextInterval(poll.interval)]
  /\ UNCHANGED <<turns, streaming, sse, toolsSent, classified, edit, indexer, jsonOutput,
                 stdout, launch, auth, flags, session, stream, isTTY, state, provider, history, messages,
                 pc, iteration, toolCallCount, tcIndex, providerCalls, lastCheck,
                 promptCount, executed, effects, result, canon>>

\* createChatCompletion after pollRun has returned the run
RunPolled ==
  /\ pc = "poll"
  /\ poll.pc = "polled"
  /\ IF poll.completedRun # "completed"
       THEN poll' = [poll EXCEPT !.pc = "failed",
                                 !.result = ProviderError("Agent run ended with status")]
       ELSE \E answer \in {"assistant", "http error", "no assistant"} :
              poll' =
                CASE answer = "http error" ->
                       [poll EXCEPT !.pc = "failed",
                                    !.result = ProviderError("Azure Agents API returned")]
                  [] answer = "no assistant" ->
                       [poll EXCEPT !.pc = "failed",
                                    !.result = ProviderError("No assistant message found")]
                  [] OTHER ->
                       [poll EXCEPT !.pc = "returned",
                                    !.result = [kind |-> "message", role |-> "assistant",
                                                finishReason |-> "stop"]]
  /\ UNCHANGED <<turns, streaming, sse, toolsSent, classified, edit, indexer, jsonOutput,
                 stdout, launch, auth, flags, session, stream, isTTY, state, provider, history, messages,
                 pc, iteration, toolCallCount, tcIndex, providerCalls, lastCheck,
                 promptCount, executed, effects, result, canon>>

InitPoll ==
  /\ pc = "poll"
  /\ poll = [NoPoll EXCEPT !.pc = "create"]
  /\ edit = NoEdit
  /\ classified = NoVerdict
  /\ session = "run"
  /\ stream = FALSE
  /\ isTTY = TRUE
  /\ flags = [allowWrite |-> FALSE, allowShell |-> FALSE]
  /\ state = PermissionManager(flags)
  /\ provider = [mode |-> "menu", left |-> 0, nextId |-> 1, supportsTools |-> FALSE]
  /\ history = <<>>
  /\ messages = <<>>
  /\ iteration = 0
  /\ toolCallCount = 0
  /\ tcIndex = 0
  /\ providerCalls = 0
  /\ lastCheck = NoCheck
  /\ promptCount = 0
  /\ executed = <<>>
  /\ effects = {}
  /\ result = NoResult
  /\ canon = <<>>
  /\ turns = 0
  /\ streaming = NoStream
  /\ auth = NoAuth
  /\ launch = NoLaunch
  /\ stdout = <<>>
  /\ jsonOutput = FALSE
  /\ indexer = NoIndex
  /\ toolsSent = NotCalled
  /\ sse = NoSSE

NextPoll ==
  \/ CreateRun
  \/ PollCheck
  \/ PollFetch
  \/ PollSleep
  \/ RunPolled

SpecPoll == InitPoll /\ [][NextPoll]_vars

\* every request is answered or fails (fetch has its own timeouts) and every
\* timer fires, so each step of the call is eventually taken
SpecPollFair == SpecPoll /\ WF_vars(NextPoll)

\* the call has ended: createChatCompletion returned or threw
PollEnded == poll.pc \in {"returned", "failed"}

\* the waits between polls: 500 ms first, each next one 1.5 times the one
\* before or the 5 s ceiling when that is less, none above 5 s
WaitsBackOff ==
  /\ (poll.waits # <<>> => poll.waits[1] = 500 * UsPerMs)
  /\ \A i \in 1..Len(poll.waits) : poll.waits[i] <= 5000 * UsPerMs
  /\ \A i \in 1..(Len(poll.waits) - 1) :
        \/ 2 * poll.waits[i+1] = 3 * poll.waits[i]
        \/ poll.waits[i+1] = 5000 * UsPerMs /\ 3 * poll.waits[i] >= 2 * 5000 * UsPerMs

PollSafe ==
  /\ (poll.result.kind = "message" =>
        poll.polls >= 1 /\ poll.status = "completed" /\ poll.completedRun = "completed")
  /\ (poll.completedRun # "none" =>
        /\ poll.completedRun \in {"completed", "failed", "cancelled", "expired", "incomplete"}
        /\ poll.completedRun = poll.status)
  /\ (poll.status \in {"queued", "in_progress"} => poll.completedRun = "none")
  /\ (poll.status = "requires_action" =>
        poll.pc = "failed" /\ poll.result = ProviderError("requires_action"))
  /\ (poll.pc = "fetch" => poll.now < 120000 * UsPerMs)
  /\ (poll.pc = "loop" /\ poll.now >= 120000 * UsPerMs =>
        poll.status \in {"queued", "in_progress"})
  /\ (poll.result = ProviderError("Run polling timed out") =>
        /\ poll.now >= 120000 * UsPerMs
        /\ poll.status \in {"queued", "in_progress"})
  /\ WaitsBackOff

\* C29: createChatCompletion of the Azure Agents adapter returns an assistant
\* message only after a poll observed the status completed; pollRun returns
\* the run only on completed, failed, cancelled, expired or incomplete, fails
\* when it observes requires_action, starts no poll once 120 s have elapsed
\* and fails with a timeout then, so the call always ends; the wait between
\* polls starts at 500 ms, grows by the factor 1.5 and never exceeds 5 s.
C29_PollingEnds == []PollSafe /\ <>PollEnded

\* a run that completed after the wait had reached its ceiling
C29_Witness ==
  /\ poll.pc = "returned"
  /\ Len(poll.waits) >= 8
  /\ poll.waits[8] = 5000 * UsPerMs

\* ---------------------------------------- data lines that are not JSON
\* the lines of a body, the unterminated rest last
BodyLines(wire) == SplitOn(wire, {"\n"})

\* the line is a data line whose payload is not valid JSON
BadData(line) ==
  LET trimmed == TrimLine(line)
  IN /\ trimmed # <<>>
     /\ trimmed[1] = "data: "
     /\ Tail(trimmed) # <<"[DONE]">>
     /\ ~SSEJSON(Tail(trimmed)).ok

\* the event named by the last `event:` line before line i
EventAt(lines, i) ==
  LET named == {j \in 1..(i-1) : TrimLine(lines[j]) # <<>> /\ TrimLine(lines[j])[1] = "event: "}
      j == CHOOSE k \in named : \A l \in named : l <= k
  IN IF named = {} THEN "" ELSE TrimLine(lines[j])[2]

\* the events of the agents stream that act whatever their payload is
PayloadFree == {"thread.run.completed", "thread.run.failed"}

\* line i is one the claim says is skipped: every data line that is not
\* JSON, or (strict = FALSE) every one but those of the payload-free events
\* of the agents stream
Skipped(kind, lines, i, strict) ==
  /\ i < Len(lines)
  /\ BadData(lines[i])
  /\ strict \/ ~(kind = "agents" /\ EventAt(lines, i) \in PayloadFree)

RECURSIVE WithoutFrom(_, _, _, _)
WithoutFrom(kind, lines, i, strict) ==
  IF i >= Len(lines) THEN lines[i]
  ELSE IF Skipped(kind, lines, i, strict) THEN WithoutFrom(kind, lines, i + 1, strict)
  ELSE lines[i] \o <<"\n">> \o WithoutFrom(kind, lines, i + 1, strict)

\* the body without its skipped lines
Without(kind, wire, strict) == WithoutFrom(kind, BodyLines(wire), 1, strict)

\* what the consumer of a parser sees: the chunks, and how the stream ended
Outcome(p) == [out |-> p.out, returned |-> p.returned, thrown |-> p.thrown]

\* the outcome of a body read at once
Parsed(kind, wire) == Outcome(parseRead(SSEStart(kind, wire), wire))

\* the number of lines the parser has taken from its body
LinesRead == Cardinality({k \in 1..sse.pos : sse.wire[k] = "\n"})

\* the parser is about to read line i of its body
NextLine(i) == ~sse.returned /\ LinesRead = i - 1

\* the parser in state sse reads line i of its body: nothing is yielded, the
\* stream neither ends nor fails, and no pending tool call changes
LineIgnored(i) ==
  LET after == parseLine(BodyLines(sse.wire)[i], sse)
  IN Outcome(after) = Outcome(sse) /\ after.pending = sse.pending

\* Every skipped line changes nothing in the state the parser reads it in,
\* and the stream as a whole has the outcome of the body without the skipped
\* lines (for the Responses parser, whose chunks depend on how the reads
\* split the body, this is compared for the body read at once).
SkipsBadData(strict) ==
  sse.kind # "none" =>
    /\ \A i \in 1..Len(BodyLines(sse.wire)) :
          Skipped(sse.kind, BodyLines(sse.wire), i, strict) /\ NextLine(i) => LineIgnored(i)
    /\ (pc = "done" =>
          Parsed(sse.kind, sse.wire) = Parsed(sse.kind, Without(sse.kind, sse.wire, strict)))
    /\ (pc = "done" /\ sse.kind # "responses" =>
          Outcome(sse) = Parsed(sse.kind, Without(sse.kind, sse.wire, strict)))

\* C30 as stated: in every SSE parser a data line whose payload is not valid
\* JSON yields no chunk and neither ends nor fails the stream; every chunk
\* of the well-formed lines before and after it is still yielded, in wire
\* order.
C30_BadJsonSkipped == SkipsBadData(TRUE)

\* C30: in every SSE parser a data line whose payload is not valid JSON
\* yields no chunk and neither ends nor fails the stream, and every chunk of
\* the other lines is still yielded in wire order, except in parseAgentSSE
\* for the data line of a thread.run.completed event (the stop chunk is
\* yielded) and of a thread.run.failed event (the stream fails), which act
\* without reading the payload.
C30_BadJsonSkippedButPayloadFree == SkipsBadData(FALSE)

\* an agents stream ended by [DONE] after a delta line that is not JSON, the
\* chunks of the delta lines before and after it and the stop chunk yielded
C30_Witness ==
  /\ pc = "done"
  /\ sse.kind = "agents"
  /\ \E i \in 1..Len(BodyLines(sse.wire)) :
        /\ Skipped("agents", BodyLines(sse.wire), i, FALSE)
        /\ EventAt(BodyLines(sse.wire), i) = "thread.message.delta"
  /\ sse.out = <<Chunk("hel", <<>>, Null), Chunk("lo", <<>>, Null),
                 Chunk(Undef, <<>>, "stop")>>
  /\ sse.returned
  /\ sse.thrown = <<>>

\* ======================================================================
\* Sessions of the chat and run commands, from the disclaimer on
\* ======================================================================

\* sessions the user starts one after the other
MaxSessions == 2

\* tool-call turns the mock provider emits in a session
MaxLaunchToolTurns == 1

\* the state of a process that has just started the chat or run command
Started(kind, tty, from) ==
  /\ session' = kind
  /\ isTTY' = tty
  /\ launch' = from
  /\ pc' = "launch"
  /\ jsonOutput' = FALSE
  /\ stream' = FALSE
  /\ flags' = [allowWrite |-> FALSE, allowShell |-> FALSE]
  /\ state' = PermissionManager(flags')
  /\ provider' = [mode |-> "menu", left |-> MaxLaunchToolTurns, nextId |-> 1,
                  supportsTools |-> TRUE]
  /\ history' = <<>>
  /\ messages' = <<>>
  /\ iteration' = 0
  /\ toolCallCount' = 0
  /\ tcIndex' = 0
  /\ providerCalls' = 0
  /\ lastCheck' = NoCheck
  /\ promptCount' = 0
  /\ executed' = <<>>
  /\ effects' = {}
  /\ result' = NoResult
  /\ canon' = <<>>
  /\ turns' = 0
  /\ streaming' = NoStream
  /\ poll' = NoPoll
  /\ auth' = NoAuth
  /\ stdout' = <<>>
  /\ indexer' = NoIndex
  /\ edit' = NoEdit
  /\ classified' = NoVerdict
  /\ toolsSent' = NotCalled
  /\ sse' = NoSSE

\* the process has ended (or the user leaves the REPL) and the user starts
\* the command again: a new process, which reads nothing of the one before
Relaunch ==
  /\ pc = "exited" \/ (session = "chat" /\ pc = "repl")
  /\ launch.sessionNo < MaxSessions
  /\ \E kind \in {"chat", "run"}, tty \in BOOLEAN :
       Started(kind, tty, [NoLaunch EXCEPT !.earlier = launch.earlier \/ launch.accepted,
                                           !.sessionNo = launch.sessionNo + 1])

InitLaunch ==
  /\ session \in {"chat", "run"}
  /\ isTTY \in BOOLEAN
  /\ launch = NoLaunch
  /\ pc = "launch"
  /\ jsonOutput = FALSE
  /\ stream = FALSE
  /\ flags = [allowWrite |-> FALSE, allowShell |-> FALSE]
  /\ state = PermissionManager(flags)
  /\ provider = [mode |-> "menu", left |-> MaxLaunchToolTurns, nextId |-> 1,
                 supportsTools |-> TRUE]
  /\ history = <<>>
  /\ messages = <<>>
  /\ iteration = 0
  /\ toolCallCount = 0
  /\ tcIndex = 0
  /\ providerCalls = 0
  /\ lastCheck = NoCheck
  /\ promptCount = 0
  /\ executed = <<>>
  /\ effects = {}
  /\ result = NoResult
  /\ canon = <<>>
  /\ turns = 0
  /\ streaming = NoStream
  /\ auth = NoAuth
  /\ poll = NoPoll
  /\ stdout = <<>>
  /\ indexer = NoIndex
  /\ edit = NoEdit
  /\ classified = NoVerdict
  /\ toolsSent = NotCalled
  /\ sse = NoSSE

NextLaunch ==
  \/ EnsureDisclaimer
  \/ AnswerDisclaimer
  \/ LaunchSetup
  \/ UserTurn
  \/ ProviderRespond
  \/ ProviderFail
  \/ BeginToolCall
  \/ AnswerPrompt
  \/ ExecuteTool
  \/ RunExit
  \/ Relaunch

SpecLaunch == InitLaunch /\ [][NextLaunch]_vars

\* the session has indexed files, called the provider or executed a tool
SessionActed ==
  launch.indexed \/ providerCalls > 0 \/ executed # <<>> \/ effects # {}

C31_WitnessNoTerminal ==
  /\ launch.sessionNo = 2
  /\ launch.earlier
  /\ ~isTTY
  /\ pc = "exited"

\* the tool message that answers the call of the latest permission check
AnswerTo(c) ==
  {i \in 1..Len(messages) : messages[i].role = "tool" /\ messages[i].toolCallId = c.id}

\* C32: a run whose stdin is not a terminal and that was given a task
\* reaches the agent loop; there a write_file call to a mutating path is,
\* with --allow-write, approved without a prompt and executed, and without
\* the flag denied, the conversation getting the permission-denied tool
\* message.
C32_PipedRun ==
  (session = "run" /\ ~isTTY) =>
    /\ (pc = "exited" => launch.task = "" \/ providerCalls > 0)
    /\ (lastCheck.tool = "write_file" /\ lastCheck.level = "mutating" =>
          /\ lastCheck.answer = NoAnswer
          /\ promptCount = 0
          /\ lastCheck.result = IF flags.allowWrite THEN "allow" ELSE "deny"
          /\ (pc \notin {"tool", "exec"} =>
                \E i \in AnswerTo(lastCheck) :
                  (messages[i].content = deniedMsg("write_file")) = ~flags.allowWrite))

\* ------------------------------------- tool calls of an Anthropic stream
\* the events of a body: the payloads of its data lines that are JSON
EventsOf(wire) ==
  LET lines == BodyLines(wire)
      datas == SelectSeq(SubSeq(lines, 1, Len(lines) - 1),
                         LAMBDA l : /\ TrimLine(l) # <<>>
                                    /\ TrimLine(l)[1] = "data: "
                                    /\ SSEJSON(Tail(TrimLine(l))).ok)
  IN [i \in 1..Len(datas) |-> SSEJSON(Tail(TrimLine(datas[i])))]

\* the tool calls of the tool_use blocks of the events, in block order, the
\* arguments of each the fragments of its index in arrival order
ToolUseCalls(events) ==
  LET starts == SelectSeq(events, LAMBDA e : /\ e.type = "content_block_start"
                                             /\ e.content_block.type = "tool_use")
      fragments(index) ==
        SelectSeq(events, LAMBDA e : /\ e.type = "content_block_delta"
                                     /\ e.delta.type = "input_json_delta"
                                     /\ e.index = index)
      arguments(index) ==
        Concat([k \in 1..Len(fragments(index)) |-> fragments(index)[k].delta.partial_json])
  IN [k \in 1..Len(starts) |->
        Fragment(starts[k].content_block.id, starts[k].content_block.name,
                 arguments(starts[k].index))]

\* the chunks of the stream that carry a finish reason, against the
\* message_delta events of the body; `bare` tells whether stop_reason
\* tool_use alone makes the finish reason tool_calls
ToolUseEmitted(bare) ==
  pc = "done" /\ sse.kind = "anthropic" =>
    LET events == EventsOf(sse.wire)
        stops == SelectSeq(events, LAMBDA e : e.type = "message_delta")
        finals == SelectSeq(sse.out, LAMBDA c : c.finishReason # Null)
        calls == ToolUseCalls(events)
    IN /\ Len(finals) = Len(stops)
       /\ \A k \in 1..Len(stops) :
             IF stops[k].delta.stop_reason = "tool_use" /\ (bare \/ calls # <<>>)
               THEN finals[k] = Chunk(Undef, calls, "tool_calls")
               ELSE finals[k] = Chunk(Undef, <<>>, "stop")
       /\ \A k \in 1..Len(sse.out) :
             sse.out[k].finishReason = Null => sse.out[k].toolCalls = <<>>

\* C33 as stated: for an Anthropic stream whose message_delta carries
\* stop_reason tool_use, parseSSE emits one tool call per tool_use block, in
\* block order, with the id and name of its content_block_start and the
\* concatenation of the fragments of its index as arguments; the finish
\* reason is tool_calls for stop_reason tool_use and stop otherwise.
C33_ToolUseEmitted == ToolUseEmitted(TRUE)

\* C33: as above, the finish reason being tool_calls for stop_reason
\* tool_use when the stream started at least one tool_use block, and stop
\* otherwise.
C33_ToolUseEmittedIfStarted == ToolUseEmitted(FALSE)

\* three blocks with interleaved fragments, the third with none
C33_Witness ==
  /\ pc = "done"
  /\ sse.kind = "anthropic"
  /\ Len(sse.out) = 2
  /\ sse.out[2] =
       Chunk(Undef,
             <<Fragment(1, "read_file", <<"{", "path", "src/x", "}">>),
               Fragment(2, "exec_shell", <<"{", "command", "ls", "}">>),
               Fragment(3, "glob_find", <<>>)>>,
             "tool_calls")

\* ----------------------------------- function calls of a Responses stream
\* the events of a body with their names: the JSON payloads of its data
\* lines, each under the event line before it
NamedEvents(wire) ==
  LET lines == BodyLines(wire)
      at == {i \in 1..(Len(lines) - 1) :
               /\ TrimLine(lines[i]) # <<>>
               /\ TrimLine(lines[i])[1] = "data: "
               /\ SSEJSON(Tail(TrimLine(lines[i]))).ok}
      RECURSIVE From(_)
      From(i) ==
        IF i >= Len(lines) THEN <<>>
        ELSE (IF i \in at
                THEN <<[event |-> EventAt(lines, i),
                        json |-> SSEJSON(Tail(TrimLine(lines[i])))]>>
                ELSE <<>>) \o From(i + 1)
  IN From(1)

\* the function calls the stream completes: for each item_id, at its first
\* response.function_call_arguments.done, the call_id and name of its
\* response.output_item.added and the terminal arguments
FunctionCallsDone(events) ==
  LET Done(k) == events[k].event = "response.function_call_arguments.done"
      Added(j, id) == /\ events[j].event = "response.output_item.added"
                      /\ events[j].json.item.type = "function_call"
                      /\ events[j].json.item.id = id
      first == {k \in 1..Len(events) :
                  /\ Done(k)
                  /\ \E j \in 1..(k - 1) : Added(j, events[k].json.item_id)
                  /\ \A j \in 1..(k - 1) :
                        Done(j) => events[j].json.item_id # events[k].json.item_id}
      item(k) == events[CHOOSE j \in 1..(k - 1) : Added(j, events[k].json.item_id)]
                   .json.item
      deltas(k) ==
        SelectSeq(SubSeq(events, 1, k),
                  LAMBDA e : /\ e.event = "response.function_call_arguments.delta"
                             /\ e.json.item_id = events[k].json.item_id)
      arguments(k) ==
        IF events[k].json.arguments # NoArguments THEN events[k].json.arguments
        ELSE Concat([j \in 1..Len(deltas(k)) |-> deltas(k)[j].json.delta])
      RECURSIVE From(_)
      From(k) ==
        IF k > Len(events) THEN <<>>
        ELSE (IF k \in first
                THEN <<Fragment(item(k).call_id, item(k).name, arguments(k))>>
                ELSE <<>>) \o From(k + 1)
  IN From(1)

\* the tool calls the stream has surfaced, one chunk each
CallChunks == SelectSeq(sse.out, LAMBDA c : c.toolCalls # <<>>)

\* C34: in the Responses adapter every function call surfaced carries the
\* wire call_id as its id, streaming or not; a stream emits each function
\* call exactly once, at the response.function_call_arguments.done of its
\* item_id, with the terminal arguments; and the tool result sent back for a
\* call is a function_call_output item with the same call_id.
C34_CallIdKept ==
  /\ (pc = "done" /\ sse.kind = "responses" =>
        LET calls == FunctionCallsDone(NamedEvents(sse.wire))
        IN CallChunks = [k \in 1..Len(calls) |-> Chunk(Undef, <<calls[k]>>, Null)])
  /\ \A json \in ResponsesBodies :
        LET calls == SelectSeq(json.output, LAMBDA item : item.type = "function_call")
            message == parseResponse(json).message
            sent == toResponsesInput(<<message>>
                                     \o [k \in 1..Len(message.toolCalls) |->
                                           toolResultMessage(message.toolCalls[k].id, "ok")])
                      .input
            outputs == SelectSeq(sent, LAMBDA item : "type" \in DOMAIN item
                                                     /\ item.type = "function_call_output")
        IN /\ Len(message.toolCalls) = Len(calls)
           /\ \A k \in 1..Len(calls) : message.toolCalls[k].id = calls[k].call_id
           /\ Len(outputs) = Len(calls)
           /\ \A k \in 1..Len(calls) : outputs[k].call_id = calls[k].call_id

\* C34 for the streams whose reads end at event boundaries: the body came
\* in one read
C34_WholeReads == (sse.pos = Len(sse.wire) /\ sse.out = OneRead) => C34_CallIdKept

\* ------------------------------------------- Anthropic message conversion
\* the ids of the tool messages, one list for each run of consecutive ones
RECURSIVE ToolRuns(_, _)
ToolRuns(msgs, run) ==
  IF msgs = <<>> THEN (IF run = <<>> THEN <<>> ELSE <<run>>)
  ELSE IF Head(msgs).role = "tool"
    THEN ToolRuns(Tail(msgs), Append(run, Head(msgs).toolCallId))
  ELSE (IF run = <<>> THEN <<>> ELSE <<run>>) \o ToolRuns(Tail(msgs), <<>>)

\* the blocks of one type of the converted messages, message by message
BlocksOf(converted, type) ==
  LET with == SelectSeq(converted,
                        LAMBDA m : \E k \in 1..Len(m.blocks) : m.blocks[k].type = type)
  IN [i \in 1..Len(with) |-> SelectSeq(with[i].blocks, LAMBDA b : b.type = type)]

\* C35: the Anthropic conversion turns every tool message into one
\* tool_result block with the message's toolCallId as tool_use_id, puts the
\* results of consecutive tool messages in their order inside one user
\* message, keeps every tool call's id on its tool_use block, and puts no
\* system message in the messages list.
C35_ToolResultsMerged ==
  LET converted == convertMessages(messages).anthropicMessages
      results == BlocksOf(converted, "tool_result")
      uses == BlocksOf(converted, "tool_use")
      calling == SelectSeq(messages, LAMBDA m : m.role = "assistant" /\ m.toolCalls # <<>>)
      holders == SelectSeq(converted,
                           LAMBDA m : \E k \in 1..Len(m.blocks) :
                                        m.blocks[k].type = "tool_result")
  IN /\ [i \in 1..Len(results) |->
           [k \in 1..Len(results[i]) |-> results[i][k].tool_use_id]]
          = ToolRuns(messages, <<>>)
     /\ \A i \in 1..Len(holders) :
           /\ holders[i].role = "user"
           /\ \A k \in 1..Len(holders[i].blocks) :
                 holders[i].blocks[k].type = "tool_result"
     /\ [i \in 1..Len(uses) |-> [k \in 1..Len(uses[i]) |-> uses[i][k].id]]
          = [i \in 1..Len(calling) |->
               [k \in 1..Len(calling[i].toolCalls) |-> calling[i].toolCalls[k].id]]
     /\ \A i \in 1..Len(converted) : converted[i].role \in {"user", "assistant"}
     /\ Len(converted) =
          Len(SelectSeq(messages, LAMBDA m : m.role \in {"user", "assistant"}))
          + Len(ToolRuns(messages, <<>>))

\* a conversation with a system message and two tool results in a row
C35_Witness ==
  /\ \E i \in 1..Len(messages) : messages[i].role = "system"
  /\ \E i \in 1..Len(ToolRuns(messages, <<>>)) : Len(ToolRuns(messages, <<>>)[i]) >= 2
  /\ Len(ToolRuns(messages, <<>>)) >= 2

\* ------------------------------------------------- the Azure CLI token
\* azureAnthropic.ts getAzureCliToken. auth.now is Date.now() in ms;
\* auth.issued[k] is the time at which `az` handed out token k.
MaxClockSteps == 4
MaxSpawns == 3
Callers == {"c1", "c2"}

TokenLifetimeMs == 3600000
SafetyMarginMs == 60000

\* a call for a token: pc is idle or spawned; outcome and value tell how the
\* last call ended, fromCache whether it ended without a child process
NoCall == [pc |-> "idle", outcome |-> "none", value |-> 0, fromCache |-> FALSE]

\* mutant: the cached token is used until it expires, without the margin
cacheValid_NoMargin(cachedToken, now) ==
  cachedToken # NoToken /\ now < cachedToken.expiresAt

\* `this.cachedToken && Date.now() < this.cachedToken.expiresAt - 60_000`
cacheValid(cachedToken, now) ==
  cachedToken # NoToken /\ now < cachedToken.expiresAt - SafetyMarginMs

AuthUnchanged ==
  UNCHANGED <<turns, streaming, sse, toolsSent, classified, edit, indexer, jsonOutput,
              stdout, poll, launch, flags, session, stream, isTTY, state, provider,
              history, messages, pc, iteration, toolCallCount, tcIndex, providerCalls,
              lastCheck, promptCount, executed, effects, result, canon>>

\* time passes: by a millisecond, or up to the last millisecond before a
\* token acquired now stops being served from the cache
ClockSteps == {1, TokenLifetimeMs - SafetyMarginMs - 1}

ClockAdvance ==
  /\ Len(auth.steps) < MaxClockSteps
  /\ \E d \in ClockSteps :
       auth' = [auth EXCEPT !.now = @ + d, !.steps = Append(@, d)]
  /\ AuthUnchanged

\* getAzureCliToken up to its return or to the spawn of `az`
GetAzureCliToken(c) ==
  /\ auth.calls[c].pc = "idle"
  /\ IF cacheValid(auth.cachedToken, auth.now)
       THEN auth' = [auth EXCEPT !.calls[c] =
                       [pc |-> "idle", outcome |-> "resolved",
                        value |-> auth.cachedToken.value, fromCache |-> TRUE]]
       ELSE /\ auth.spawns < MaxSpawns
            /\ auth' = [auth EXCEPT !.spawns = @ + 1,
                                    !.calls[c] = [NoCall EXCEPT !.pc = "spawned"]]
  /\ AuthUnchanged

\* child.on('close') with exit code 0: stdout is the token
SpawnSucceeds(c) ==
  /\ auth.calls[c].pc = "spawned"
  /\ LET token == Len(auth.issued) + 1
     IN auth' = [auth EXCEPT
                   !.issued = Append(@, auth.now),
                   !.cachedToken = [value |-> token,
                                    expiresAt |-> auth.now + TokenLifetimeMs],
                   !.calls[c] = [pc |-> "idle", outcome |-> "resolved", value |-> token,
                                 fromCache |-> FALSE]]
  /\ AuthUnchanged

\* child.on('close') with another exit code: the promise is rejected
SpawnFails(c) ==
  /\ auth.calls[c].pc = "spawned"
  /\ auth' = [auth EXCEPT !.calls[c] = [pc |-> "idle", outcome |-> "rejected",
                                        value |-> 0, fromCache |-> FALSE]]
  /\ AuthUnchanged

InitAuth ==
  /\ pc = "auth"
  /\ poll = NoPoll
  /\ edit = NoEdit
  /\ classified = NoVerdict
  /\ session = "run"
  /\ stream = FALSE
  /\ isTTY = TRUE
  /\ flags = [allowWrite |-> FALSE, allowShell |-> FALSE]
  /\ state = PermissionManager(flags)
  /\ provider = [mode |-> "menu", left |-> 0, nextId |-> 1, supportsTools |-> FALSE]
  /\ history = <<>>
  /\ messages = <<>>
  /\ iteration = 0
  /\ toolCallCount = 0
  /\ tcIndex = 0
  /\ providerCalls = 0
  /\ lastCheck = NoCheck
  /\ promptCount = 0
  /\ executed = <<>>
  /\ effects = {}
  /\ result = NoResult
  /\ canon = <<>>
  /\ turns = 0
  /\ streaming = NoStream
  /\ auth = [NoAuth EXCEPT !.calls = [c \in Callers |-> NoCall]]
  /\ launch = NoLaunch
  /\ stdout = <<>>
  /\ jsonOutput = FALSE
  /\ indexer = NoIndex
  /\ toolsSent = NotCalled
  /\ sse = NoSSE

NextAuth ==
  \/ ClockAdvance
  \/ \E c \in Callers : GetAzureCliToken(c)
  \/ \E c \in Callers : SpawnSucceeds(c)
  \/ \E c \in Callers : SpawnFails(c)

SpecAuth == InitAuth /\ [][NextAuth]_vars

\* the call of c begins in this step
CallBegins(c) ==
  /\ auth.calls[c].pc = "idle"
  /\ auth'.calls[c] # auth.calls[c]

\* the spawned process of c closes in this step
SpawnCloses(c) == auth.calls[c].pc = "spawned" /\ auth'.calls[c].pc = "idle"

\* the time the cached token was acquired at
AcquiredAt == auth.issued[auth.cachedToken.value]

\* C36: getAzureCliToken returns the cached token without spawning the CLI
\* exactly when a token is cached and the time is earlier than its
\* acquisition plus one hour minus 60 s; otherwise it spawns the CLI; a
\* successful spawn replaces the cache, and a failed one leaves the cache as
\* it is and fails the call.
C36_TokenCache ==
  [][\A c \in Callers :
       /\ CallBegins(c) =>
            IF auth.cachedToken # NoToken
               /\ auth.now < AcquiredAt + TokenLifetimeMs - SafetyMarginMs
              THEN /\ auth'.spawns = auth.spawns
                   /\ auth'.calls[c].pc = "idle"
                   /\ auth'.calls[c].outcome = "resolved"
                   /\ auth'.calls[c].value = auth.cachedToken.value
                   /\ auth'.cachedToken = auth.cachedToken
              ELSE /\ auth'.spawns = auth.spawns + 1
                   /\ auth'.calls[c].pc = "spawned"
                   /\ auth'.cachedToken = auth.cachedToken
       /\ SpawnCloses(c) =>
            \/ /\ auth'.calls[c].outcome = "resolved"
               /\ auth'.cachedToken.value = auth'.calls[c].value
               /\ auth'.cachedToken.value \notin
                    {auth.cachedToken.value} \cup {auth.calls[d].value : d \in Callers}
               /\ AcquiredAt' = auth.now
            \/ /\ auth'.calls[c].outcome = "rejected"
               /\ auth'.cachedToken = auth.cachedToken]_vars

\* a call was answered from the cache in the last millisecond of the
\* token's use, and a later one, after it, was not
C36_Witness ==
  \E c, d \in Callers :
    /\ auth.calls[c].fromCache
    /\ auth.calls[c].value = 1
    /\ auth.calls[d].outcome = "rejected"
    /\ auth.cachedToken.value = 2
    /\ auth.now >= auth.issued[1] + TokenLifetimeMs - SafetyMarginMs

\* ------------------------------------------------- advertised tools
\* the names of the tools the latest provider call advertised
Advertised ==
  IF toolsSent \in {NotCalled, <<Undef>>} THEN {}
  ELSE {toolsSent[i] : i \in 1..Len(toolsSent)}

\* C37: every tool the provider call advertised to the model is dispatched
\* by executeTool to its executor, and the "Unknown tool" error comes only
\* for names outside the advertised set.
C37_AdvertisedDispatched ==
  /\ \A name \in Advertised :
        \A arguments \in {ArgsJSON("path", "src/x"), ArgsJSON("command", "ls")} :
          executeTool(ToolCall(1, name, arguments)) # "Error: Unknown tool"
  /\ \A i \in 1..Len(executed) :
        executeTool(executed[i]) = "Error: Unknown tool" =>
          executed[i].name \notin {getAllTools[k] : k \in 1..Len(getAllTools)}

\* ------------------------------------------- a failed turn of the REPL
\* the provider call of this step fails: it was made and nothing was pushed
TurnFails ==
  pc = "provider" /\ providerCalls' = providerCalls + 1 /\ messages' = messages

\* C38: when a turn of the REPL fails with a provider error the REPL stays
\* alive and prompts for the next input, its history being the history from
\* before the turn plus the turn's user message; no assistant or tool
\* message of the failed turn is kept, since runAgent works on a copy and
\* leaves the list it was given as it is.
C38_FailedTurnKeepsHistory ==
  [][/\ (pc = "repl" /\ pc' # "repl" =>
            /\ Len(history') = Len(history) + 1
            /\ SubSeq(history', 1, Len(history)) = history
            /\ history'[Len(history')].role = "user")
     /\ (pc # "repl" /\ pc' # "repl" => history' = history)
     /\ (pc # "repl" => /\ Len(messages) >= Len(history) + 1
                        /\ SubSeq(messages, 2, Len(history) + 1) = history)
     /\ (TurnFails => /\ pc' = "repl"
                      /\ history' = history
                      /\ history'[Len(history')].role = "user"
                      /\ \A i \in (Len(history) + 2)..Len(messages) :
                            messages[i].role \in {"assistant", "tool"})]_vars

\* the second turn failed after an assistant message and its tool results
C38_Witness ==
  /\ session = "chat"
  /\ pc = "repl"
  /\ turns = 2
  /\ Len(history) >= 3
  /\ Len(messages) >= Len(history) + 3
  /\ SubSeq(messages, 2, Len(history) + 1) = history
  /\ history[Len(history)].role = "user"
  /\ messages[Len(messages)].role = "tool"

\* ------------------------------------------------- the count of tool calls
\* the messages the run pushed on its list: those after the system message
\* and the history it was given
PushedByRun == SubSeq(result.messages, Len(history) + 2, Len(result.messages))

\* C39: at every return of runAgent toolCallCount is the number of tool
\* messages the run appended, which is the number of tool calls of all the
\* assistant messages it appended; denied calls and calls whose execution
\* failed count.
C39_CountMatches ==
  (session = "run" /\ result # NoResult) =>
    /\ result.toolCallCount = toolCallCount
    /\ result.toolCallCount
         = Len(SelectSeq(PushedByRun, LAMBDA m : m.role = "tool"))
    /\ result.toolCallCount
         = CountCalls(SelectSeq(PushedByRun, LAMBDA m : m.role = "assistant"))
    /\ SubSeq(result.messages, 2, Len(history) + 1) = history

\* a run returned after a denied call and a call whose execution failed
C39_Witness ==
  /\ session = "run"
  /\ result # NoResult
  /\ result.toolCallCount >= 2
  /\ \E i \in 1..Len(PushedByRun) :
        PushedByRun[i].role = "tool" /\ BeginsPermissionDenied(PushedByRun[i].content)
  /\ \E i \in 1..Len(PushedByRun) :
        /\ PushedByRun[i].role = "tool"
        /\ PushedByRun[i].content \in {"Error: Failed to parse arguments",
                                       "Error: Unknown tool", "Error: Failed to read file",
                                       "Error: Shell command failed"}

\* a run returned at the iteration limit, its last call counted
C39_WitnessLimit ==
  /\ session = "run"
  /\ result # NoResult
  /\ result.finalContent = MAX_ITER_TEXT
  /\ result.messages[Len(result.messages)].role = "tool"
  /\ result.toolCallCount >= 1

====
